---- MODULE Spec2Model ----
(***************************************************************************)
(* Leaderboard service: a PostgreSQL ledger of score records (Score model) *)
(* projected into Redis sorted sets (leaderboardService.addScore) and      *)
(* rebuilt from the ledger by leaderboardSync.                             *)
(*                                                                         *)
(* Time is counted in ticks, TicksPerDay of them to a day, since midnight   *)
(* of January 1st of one calendar year; the server's time zone is taken to *)
(* be UTC.                                                                 *)
(***************************************************************************)
EXTENDS Integers, Sequences, FiniteSets, TLC

\* ------------------------------------------------------------------ bounds
\* the ledger holds at most MaxRecords score records
MaxRecords == 2
\* the largest limit, offset and range (radius) a read request carries
MaxLimit == 3
MaxOffset == 2
MaxRange == 1
\* the clock: TicksPerDay moments are told apart within one day
TicksPerDay == 3
\* ------------------------------------------------------- program constants
\* the lifetimes of the time-scoped keys, in days
DAILY_TTL == 2
WEEKLY_TTL == 8
MONTHLY_TTL == 32

\* ------------------------------------------------------------ the database
\* rows of the users table, rows of the games table, and one id without a row
Users == {"u1", "u2"}
Games == {"g1", "g2"}
MissingGame == "g0"
GameIds == Games \cup {MissingGame}
Names == {"a", "b", "c"}
\* the scores request bodies carry
Values == {-1, 0, 1, 2}

\* Game.maxScore: g1 is capped, g2 has no cap (null, which `game.maxScore && ...`
\* treats like 0)
GameMaxScore == [g \in Games |-> IF g = "g1" THEN 1 ELSE 0]

\* null results of aggregate queries and of ZREVRANK / ZSCORE
Null == -1
\* a key without a TTL
NoExpiry == -1

VARIABLES
    ledger,      \* the scores table: a bag of records
    gameActive,  \* Game.isActive per game row
    userActive,  \* User.isActive per user row
    username,    \* User.username per user row
    redis,       \* the Redis keyspace: global, game and time-scoped sorted sets
    now,         \* the current time, in ticks
    sub,         \* the submitScore request in flight between two awaits, or NoSub
    resp,        \* what the latest step answered; NoResp when it answered nothing
    clean,       \* ghost: no rebuild, flush, rename or failed Redis write so far
    lost,        \* ghost: Redis lost its data and no startup sync has run since
    wroteAt,     \* ghost: per daily board and member, when its entry was last written
    fs,          \* per caller, the forceSyncLeaderboards run in progress between awaits
    srv,         \* the process: where startServer stands, how its sync step ended
    inflight     \* per caller, the submitScore call in progress between awaits

\* the variables only some specifications move; the others leave them alone
aux == <<lost, wroteAt, fs, srv, inflight>>

vars == <<ledger, gameActive, userActive, username, redis, now, sub, resp, clean, lost,
          wroteAt, fs, srv, inflight>>

\* the requests that may call forceSyncLeaderboards at the same time
Callers == {"r1", "r2"}
NoSync == [pc |-> "idle"]

\* startServer before its sync step, and after app.listen
Started == [pc |-> "sync", sync |-> "pending"]
Serving == [pc |-> "serving", sync |-> "done"]

NoSub == [pc |-> "idle"]
NoResp == [op |-> "none"]

\* ------------------------------------------------------------- Score model
ScoreRecord(u, g, v, t) == [userId |-> u, gameId |-> g, score |-> v, submittedAt |-> t]

\* Score.create: one more row
ScoreCreate(l, r) ==
    [x \in DOMAIN l \cup {r} |-> IF x \in DOMAIN l THEN (IF x = r THEN l[x] + 1 ELSE l[x]) ELSE 1]

RECURSIVE BagSum(_, _)
BagSum(l, S) ==
    IF S = {} THEN 0
    ELSE LET r == CHOOSE x \in S : TRUE
         IN  r.score * l[r] + BagSum(l, S \ {r})

RECURSIVE BagCount(_, _)
BagCount(l, S) ==
    IF S = {} THEN 0
    ELSE LET r == CHOOSE x \in S : TRUE
         IN  l[r] + BagCount(l, S \ {r})

\* Score.count()
ScoreCount(l) == BagCount(l, DOMAIN l)

\* Score.count({ where: { gameId }, distinct: true, col: 'userId' })
ScoreCountDistinctUsers(l, g) ==
    Cardinality({r.userId : r \in {x \in DOMAIN l : x.gameId = g}})

SetMax(S) == CHOOSE x \in S : \A y \in S : y <= x

\* Score.max('score', { where: { userId, gameId } }): null without rows
ScoreMax(l, u, g) ==
    LET S == {r.score : r \in {x \in DOMAIN l : x.userId = u /\ x.gameId = g}}
    IN  IF S = {} THEN Null ELSE SetMax(S)

\* Score.sum('score', { where: { userId } }): null without rows, and null
\* compares like 0 in `totalScore > 0`
ScoreSum(l, u) == BagSum(l, {r \in DOMAIN l : r.userId = u})

\* Score.sum('score', { where: { userId, submittedAt: { [Op.gte]: since } } })
ScoreSumSince(l, u, since) ==
    BagSum(l, {r \in DOMAIN l : r.userId = u /\ r.submittedAt >= since})

\* ------------------------------------------------------- Redis sorted sets
\* member = JSON.stringify({ id: userId, username })
Member(u, name) == <<u, name>>
Members == Users \X Names

EmptyBoard == [m \in {} |-> 0]

\* ZADD key score member
ZAdd(b, m, s) == [x \in DOMAIN b \cup {m} |-> IF x = m THEN s ELSE b[x]]

\* the same without the GT flag
ZAddGT_Plain(b, m, s) == ZAdd(b, m, s)

\* ZADD key GT score member: never lowers a score, still adds new members
ZAddGT(b, m, s) ==
    IF m \in DOMAIN b /\ s <= b[m] THEN b ELSE ZAdd(b, m, s)

\* an increment that overwrites
ZIncrBy_Set(b, m, s) == ZAdd(b, m, s)

\* ZINCRBY key increment member: a missing member counts as 0
ZIncrBy(b, m, s) == ZAdd(b, m, (IF m \in DOMAIN b THEN b[m] ELSE 0) + s)

\* ZCARD key
ZCard(b) == Cardinality(DOMAIN b)

\* ZSCORE key member
ZScore(b, m) == IF m \in DOMAIN b THEN b[m] ELSE Null

\* members of equal score are ordered by their JSON text
\* (a member that is not JSON is a text that does not start with a brace, and
\* sorts before every JSON member)
IdOrd == [u \in Users \cup {"legacy"} |-> IF u = "legacy" THEN 0 ELSE IF u = "u1" THEN 1 ELSE 2]
NameOrd == [n \in Names |-> IF n = "a" THEN 1 ELSE IF n = "b" THEN 2 ELSE 3]
MemberLess(x, y) ==
    \/ IdOrd[x[1]] < IdOrd[y[1]]
    \/ x[1] = y[1] /\ Len(x) = 2 /\ Len(y) = 2 /\ NameOrd[x[2]] < NameOrd[y[2]]

\* a member stored as plain text, as data written before members were JSON
LegacyMember == <<"legacy">>

\* JSON.parse(member) returns an object
Decodes(m) == Len(m) = 2

\* ZREVRANK with members of equal score counted in ascending order
ZRevRank_TiesAscending(b, m) ==
    IF m \notin DOMAIN b THEN Null
    ELSE Cardinality({x \in DOMAIN b :
                        \/ b[x] > b[m]
                        \/ b[x] = b[m] /\ MemberLess(x, m)})

\* ZREVRANK key member: 0-based position from the highest score, null if absent
ZRevRank(b, m) ==
    IF m \notin DOMAIN b THEN Null
    ELSE Cardinality({x \in DOMAIN b :
                        \/ b[x] > b[m]
                        \/ b[x] = b[m] /\ MemberLess(m, x)})

\* the member a descending read meets first: the highest score and, among
\* equal scores, the greatest member
ZTop(b) ==
    CHOOSE m \in DOMAIN b :
        \A x \in DOMAIN b \ {m} : b[x] < b[m] \/ (b[x] = b[m] /\ MemberLess(x, m))

\* ZREM key member
ZRem(b, m) == [x \in DOMAIN b \ {m} |-> b[x]]

\* the whole sorted set from the highest score down, WITHSCORES
RECURSIVE ZRevAll(_)
ZRevAll(b) ==
    IF DOMAIN b = {} THEN << >>
    ELSE <<[member |-> ZTop(b), score |-> b[ZTop(b)]]>> \o ZRevAll(ZRem(b, ZTop(b)))

\* a range that runs one position past stop
ZRevRange_PastStop(b, start, stop) ==
    SubSeq(ZRevAll(b), start + 1, IF stop + 2 < ZCard(b) THEN stop + 2 ELSE ZCard(b))

\* ZREVRANGE key start stop WITHSCORES, 0 <= start: the positions start..stop
\* that exist
ZRevRange(b, start, stop) ==
    SubSeq(ZRevAll(b), start + 1, IF stop + 1 < ZCard(b) THEN stop + 1 ELSE ZCard(b))

\* ----------------------------------------------------------- the keyspace
\* redis.global : leaderboard:global
\* redis.game[g]: leaderboard:game:{g}
\* redis.time[k]: leaderboard:daily|weekly|monthly:{period}, for the keys that
\*                exist, each with its sorted set and the day its TTL runs out
\* redis.ttl[k] : the TTL deadline of the global key ("global") or of a game
\*                key (the game's id), for those of them that have one
EmptyTime == [k \in {} |-> 0]
EmptyRedis ==
    [global |-> EmptyBoard, game |-> [g \in Games |-> EmptyBoard], time |-> EmptyTime,
     ttl |-> EmptyTime]

GLOBAL_LEADERBOARD == [kind |-> "global"]
GAME_LEADERBOARD(g) == [kind |-> "game", id |-> g]
DAILY_LEADERBOARD(date) == [kind |-> "time", id |-> <<"daily", date>>]
WEEKLY_LEADERBOARD(week) == [kind |-> "time", id |-> <<"weekly", week>>]
MONTHLY_LEADERBOARD(month) == [kind |-> "time", id |-> <<"monthly", month>>]

\* the sorted set at a key; a key that does not exist reads as an empty set
Board(st, key) ==
    CASE key.kind = "global" -> st.global
      [] key.kind = "game" -> st.game[key.id]
      [] key.kind = "time" ->
           IF key.id \in DOMAIN st.time THEN st.time[key.id].zset ELSE EmptyBoard

\* the name under which redis.ttl keeps the deadline of the global or a game key
TtlId(key) == IF key.kind = "global" THEN "global" ELSE key.id

\* the deadlines of redis.ttl without the one of key when the set b is empty
TtlAfter(st, key, b) ==
    IF DOMAIN b = {}
    THEN [k \in DOMAIN st.ttl \ {TtlId(key)} |-> st.ttl[k]]
    ELSE st.ttl

\* the TTL deadline of a key, NoExpiry without one
ExpireAt(st, key) ==
    IF key.kind = "time"
    THEN IF key.id \in DOMAIN st.time THEN st.time[key.id].expireAt ELSE NoExpiry
    ELSE IF TtlId(key) \in DOMAIN st.ttl THEN st.ttl[TtlId(key)] ELSE NoExpiry

\* store a sorted set at a key, keeping the key's TTL; an empty set removes the key
SetBoard(st, key, b) ==
    CASE key.kind = "global" -> [st EXCEPT !.global = b, !.ttl = TtlAfter(st, key, b)]
      [] key.kind = "game" -> [st EXCEPT !.game[key.id] = b, !.ttl = TtlAfter(st, key, b)]
      [] key.kind = "time" ->
           [st EXCEPT !.time =
               [k \in (IF DOMAIN b = {} THEN DOMAIN st.time \ {key.id}
                                        ELSE DOMAIN st.time \cup {key.id}) |->
                   IF k = key.id
                   THEN [zset |-> b, expireAt |-> ExpireAt(st, key)]
                   ELSE st.time[k]]]

\* getDateStrings: date = the day; week = ceil((now - Jan 1) / 7 days), which is
\* floor(days / 7) + 1 at any moment after midnight; month = the calendar month
\* (January has 31 days)
Days(n) == n * TicksPerDay
DayOf(t) == t \div TicksPerDay
DateOf(t) == DayOf(t)
WeekOf(t) == (DayOf(t) \div 7) + 1
MonthOf(t) == IF DayOf(t) < 31 THEN 1 ELSE 2
getDateStrings(t) == [date |-> DateOf(t), week |-> WeekOf(t), month |-> MonthOf(t)]

\* one Redis command applied to the keyspace
Apply(c, st) ==
    CASE c.op = "zadd" -> SetBoard(st, c.key, ZAdd(Board(st, c.key), c.member, c.score))
      [] c.op = "zaddgt" -> SetBoard(st, c.key, ZAddGT(Board(st, c.key), c.member, c.score))
      [] c.op = "zincrby" -> SetBoard(st, c.key, ZIncrBy(Board(st, c.key), c.member, c.score))
      [] c.op = "del" -> SetBoard(st, c.key, EmptyBoard)
      [] c.op = "expire" ->
           IF c.key.kind = "time"
           THEN IF c.key.id \in DOMAIN st.time
                THEN [st EXCEPT !.time[c.key.id].expireAt = c.at]
                ELSE st
           ELSE IF DOMAIN Board(st, c.key) # {}
                THEN [st EXCEPT !.ttl =
                         [k \in DOMAIN st.ttl \cup {TtlId(c.key)} |->
                             IF k = TtlId(c.key) THEN c.at ELSE st.ttl[k]]]
                ELSE st

\* the first n commands of a pipeline, in order
RECURSIVE Exec(_, _, _)
Exec(cmds, n, st) ==
    IF n = 0 THEN st ELSE Apply(cmds[n], Exec(cmds, n - 1, st))

\* ----------------------------------------------- leaderboardService.addScore
\* a pipeline whose member is built from the user id alone
AddScorePipeline_ById(userId, gameId, score, name, t) ==
    LET d == getDateStrings(t)
        member == Member(userId, "a")
    IN  << [op |-> "zaddgt", key |-> GAME_LEADERBOARD(gameId), score |-> score, member |-> member],
           [op |-> "zincrby", key |-> GLOBAL_LEADERBOARD, score |-> score, member |-> member],
           [op |-> "zincrby", key |-> DAILY_LEADERBOARD(d.date), score |-> score, member |-> member],
           [op |-> "zincrby", key |-> WEEKLY_LEADERBOARD(d.week), score |-> score, member |-> member],
           [op |-> "zincrby", key |-> MONTHLY_LEADERBOARD(d.month), score |-> score, member |-> member],
           [op |-> "expire", key |-> DAILY_LEADERBOARD(d.date), at |-> t + Days(DAILY_TTL)],
           [op |-> "expire", key |-> WEEKLY_LEADERBOARD(d.week), at |-> t + Days(WEEKLY_TTL)],
           [op |-> "expire", key |-> MONTHLY_LEADERBOARD(d.month), at |-> t + Days(MONTHLY_TTL)] >>

\* a pipeline that also gives the global key the TTL of the daily key
AddScorePipeline_ExpireGlobal(userId, gameId, score, name, t) ==
    LET d == getDateStrings(t)
        member == Member(userId, name)
    IN  << [op |-> "zaddgt", key |-> GAME_LEADERBOARD(gameId), score |-> score, member |-> member],
           [op |-> "zincrby", key |-> GLOBAL_LEADERBOARD, score |-> score, member |-> member],
           [op |-> "zincrby", key |-> DAILY_LEADERBOARD(d.date), score |-> score, member |-> member],
           [op |-> "zincrby", key |-> WEEKLY_LEADERBOARD(d.week), score |-> score, member |-> member],
           [op |-> "zincrby", key |-> MONTHLY_LEADERBOARD(d.month), score |-> score, member |-> member],
           [op |-> "expire", key |-> GLOBAL_LEADERBOARD, at |-> t + Days(DAILY_TTL)],
           [op |-> "expire", key |-> DAILY_LEADERBOARD(d.date), at |-> t + Days(DAILY_TTL)],
           [op |-> "expire", key |-> WEEKLY_LEADERBOARD(d.week), at |-> t + Days(WEEKLY_TTL)],
           [op |-> "expire", key |-> MONTHLY_LEADERBOARD(d.month), at |-> t + Days(MONTHLY_TTL)] >>

\* a pipeline of absolute scores, computed from the scores read when it is built
AddScorePipeline_ReadFirst(userId, gameId, score, name, t) ==
    LET d == getDateStrings(t)
        member == Member(userId, name)
        cur(key) == ZScore(Board(redis, key), member)
        best == IF cur(GAME_LEADERBOARD(gameId)) # Null /\ cur(GAME_LEADERBOARD(gameId)) > score
                THEN cur(GAME_LEADERBOARD(gameId)) ELSE score
        sum(key) == IF cur(key) = Null THEN score ELSE cur(key) + score
    IN  << [op |-> "zadd", key |-> GAME_LEADERBOARD(gameId), score |-> best, member |-> member],
           [op |-> "zadd", key |-> GLOBAL_LEADERBOARD, score |-> sum(GLOBAL_LEADERBOARD), member |-> member],
           [op |-> "zadd", key |-> DAILY_LEADERBOARD(d.date),
            score |-> sum(DAILY_LEADERBOARD(d.date)), member |-> member],
           [op |-> "zadd", key |-> WEEKLY_LEADERBOARD(d.week),
            score |-> sum(WEEKLY_LEADERBOARD(d.week)), member |-> member],
           [op |-> "zadd", key |-> MONTHLY_LEADERBOARD(d.month),
            score |-> sum(MONTHLY_LEADERBOARD(d.month)), member |-> member],
           [op |-> "expire", key |-> DAILY_LEADERBOARD(d.date), at |-> t + Days(DAILY_TTL)],
           [op |-> "expire", key |-> WEEKLY_LEADERBOARD(d.week), at |-> t + Days(WEEKLY_TTL)],
           [op |-> "expire", key |-> MONTHLY_LEADERBOARD(d.month), at |-> t + Days(MONTHLY_TTL)] >>

\* the pipeline without its EXPIRE commands
AddScorePipeline_NoExpire(userId, gameId, score, name, t) ==
    LET d == getDateStrings(t)
        member == Member(userId, name)
    IN  << [op |-> "zaddgt", key |-> GAME_LEADERBOARD(gameId), score |-> score, member |-> member],
           [op |-> "zincrby", key |-> GLOBAL_LEADERBOARD, score |-> score, member |-> member],
           [op |-> "zincrby", key |-> DAILY_LEADERBOARD(d.date), score |-> score, member |-> member],
           [op |-> "zincrby", key |-> WEEKLY_LEADERBOARD(d.week), score |-> score, member |-> member],
           [op |-> "zincrby", key |-> MONTHLY_LEADERBOARD(d.month), score |-> score, member |-> member] >>

\* the pipeline addScore queues for one submission at day t
AddScorePipeline(userId, gameId, score, name, t) ==
    LET d == getDateStrings(t)
        member == Member(userId, name)
    IN  << [op |-> "zaddgt", key |-> GAME_LEADERBOARD(gameId), score |-> score, member |-> member],
           [op |-> "zincrby", key |-> GLOBAL_LEADERBOARD, score |-> score, member |-> member],
           [op |-> "zincrby", key |-> DAILY_LEADERBOARD(d.date), score |-> score, member |-> member],
           [op |-> "zincrby", key |-> WEEKLY_LEADERBOARD(d.week), score |-> score, member |-> member],
           [op |-> "zincrby", key |-> MONTHLY_LEADERBOARD(d.month), score |-> score, member |-> member],
           [op |-> "expire", key |-> DAILY_LEADERBOARD(d.date), at |-> t + Days(DAILY_TTL)],
           [op |-> "expire", key |-> WEEKLY_LEADERBOARD(d.week), at |-> t + Days(WEEKLY_TTL)],
           [op |-> "expire", key |-> MONTHLY_LEADERBOARD(d.month), at |-> t + Days(MONTHLY_TTL)] >>

\* rank !== null ? rank + 1 : null
OneBased(rank) == IF rank # Null THEN rank + 1 ELSE Null

\* the ranks addScore reads back after its pipeline
AddScoreRanks(st, userId, gameId, name) ==
    [gameRank |-> OneBased(ZRevRank(Board(st, GAME_LEADERBOARD(gameId)), Member(userId, name))),
     globalRank |-> OneBased(ZRevRank(Board(st, GLOBAL_LEADERBOARD), Member(userId, name)))]

\* ------------------------------------------------------------------ reads
\* parseLeaderboardResults: entry i (from 0) gets rank startOffset + i + 1
\* and, when JSON.parse throws, the stored text as both userId and username
parseLeaderboardResults(results, startOffset) ==
    [i \in 1..Len(results) |->
        IF Decodes(results[i].member)
        THEN [rank |-> startOffset + (i - 1) + 1,
              userId |-> results[i].member[1],
              username |-> results[i].member[2],
              score |-> results[i].score]
        ELSE [rank |-> startOffset + (i - 1) + 1,
              userId |-> results[i].member[1],
              username |-> results[i].member[1],
              score |-> results[i].score]]

getGameLeaderboard(st, gameId, limit, offset) ==
    parseLeaderboardResults(
        ZRevRange(Board(st, GAME_LEADERBOARD(gameId)), offset, offset + limit - 1), offset)

getGlobalLeaderboard(st, limit, offset) ==
    parseLeaderboardResults(
        ZRevRange(Board(st, GLOBAL_LEADERBOARD), offset, offset + limit - 1), offset)

getUserGameRank(st, userId, gameId, name) ==
    [rank |-> OneBased(ZRevRank(Board(st, GAME_LEADERBOARD(gameId)), Member(userId, name))),
     score |-> ZScore(Board(st, GAME_LEADERBOARD(gameId)), Member(userId, name))]

getUserGlobalRank(st, userId, name) ==
    [rank |-> OneBased(ZRevRank(Board(st, GLOBAL_LEADERBOARD), Member(userId, name))),
     totalScore |-> ZScore(Board(st, GLOBAL_LEADERBOARD), Member(userId, name))]

\* the periods topPlayersReportValidation lets through
Periods == {"day", "week", "month", "year", "all"}

\* a switch that sends 'year' to the daily board
getTopPlayersByPeriod_YearIsDay(st, period, limit, t) ==
    LET d == getDateStrings(t)
        key == CASE period \in {"day", "year"} -> DAILY_LEADERBOARD(d.date)
                 [] period = "week" -> WEEKLY_LEADERBOARD(d.week)
                 [] period = "month" -> MONTHLY_LEADERBOARD(d.month)
                 [] OTHER -> GLOBAL_LEADERBOARD
    IN  parseLeaderboardResults(ZRevRange(Board(st, key), 0, limit - 1), 0)

\* getTopPlayersByPeriod: the switch has cases for day, week and month; every
\* other period falls to the default, the global board
getTopPlayersByPeriod(st, period, limit, t) ==
    LET d == getDateStrings(t)
        key == CASE period = "day" -> DAILY_LEADERBOARD(d.date)
                 [] period = "week" -> WEEKLY_LEADERBOARD(d.week)
                 [] period = "month" -> MONTHLY_LEADERBOARD(d.month)
                 [] OTHER -> GLOBAL_LEADERBOARD
    IN  parseLeaderboardResults(ZRevRange(Board(st, key), 0, limit - 1), 0)

\* gameId = null selects the global board
NoGame == "null"
AroundKey(gameId) ==
    IF gameId # NoGame THEN GAME_LEADERBOARD(gameId) ELSE GLOBAL_LEADERBOARD

\* a window of 2 * range + 1 positions that starts at the clipped lower end
getPlayersAroundUser_Window(st, userId, name, gameId, range) ==
    LET rank == ZRevRank(Board(st, AroundKey(gameId)), Member(userId, name))
        start == IF rank - range > 0 THEN rank - range ELSE 0
    IN  IF rank = Null THEN [userRank |-> Null, players |-> << >>]
        ELSE [userRank |-> rank + 1,
              players |-> parseLeaderboardResults(
                              ZRevRange(Board(st, AroundKey(gameId)), start, start + 2 * range),
                              start)]

\* the window without the players below the user
getPlayersAroundUser_NoBelow(st, userId, name, gameId, range) ==
    LET rank == ZRevRank(Board(st, AroundKey(gameId)), Member(userId, name))
        start == IF rank - range > 0 THEN rank - range ELSE 0
    IN  IF rank = Null THEN [userRank |-> Null, players |-> << >>]
        ELSE [userRank |-> rank + 1,
              players |-> parseLeaderboardResults(
                              ZRevRange(Board(st, AroundKey(gameId)), start, rank), start)]

getPlayersAroundUser(st, userId, name, gameId, range) ==
    LET rank == ZRevRank(Board(st, AroundKey(gameId)), Member(userId, name))
        start == IF rank - range > 0 THEN rank - range ELSE 0
        end == rank + range
    IN  IF rank = Null THEN [userRank |-> Null, players |-> << >>]
        ELSE [userRank |-> rank + 1,
              players |-> parseLeaderboardResults(
                              ZRevRange(Board(st, AroundKey(gameId)), start, end), start)]

\* getLeaderboardSize: ZCARD of the game's key, of the global key without a game
getLeaderboardSize(st, gameId) == ZCard(Board(st, AroundKey(gameId)))

\* getUserAllRanks: the global rank and total, and the rank and score in each
\* of the given games where the member has a rank
getUserAllRanks(st, userId, name, gameIds) ==
    [global |-> [rank |-> OneBased(ZRevRank(Board(st, GLOBAL_LEADERBOARD), Member(userId, name))),
                 totalScore |-> ZScore(Board(st, GLOBAL_LEADERBOARD), Member(userId, name))],
     games |-> [g \in {x \in gameIds :
                          ZRevRank(Board(st, GAME_LEADERBOARD(x)), Member(userId, name)) # Null} |->
                  [rank |-> ZRevRank(Board(st, GAME_LEADERBOARD(g)), Member(userId, name)) + 1,
                   score |-> ZScore(Board(st, GAME_LEADERBOARD(g)), Member(userId, name))]]]

\* --------------------------------------------------------------- responses
\* errorHandler: an ApiError answers with its own status and message, the
\* Sequelize validation, unique and foreign-key errors with 400, a Redis error
\* with 503, anything else with 500; every one of them with success: false
errorHandler(err) ==
    [status |-> CASE err.name = "ApiError" -> err.statusCode
                  [] err.name \in {"SequelizeValidationError",
                                   "SequelizeUniqueConstraintError",
                                   "SequelizeForeignKeyConstraintError"} -> 400
                  [] err.name \in {"ReplyError", "RedisError"} -> 503
                  [] OTHER -> 500,
     success |-> FALSE,
     message |-> CASE err.name \in {"ReplyError", "RedisError"}
                        -> "Leaderboard service temporarily unavailable"
                   [] OTHER -> err.message]

ApiError(code, message) == [name |-> "ApiError", statusCode |-> code, message |-> message]

\* the checks without the maxScore test
SubmitCheck_NoMax(u, g, v) ==
    IF ~userActive[u] THEN ApiError(401, "User account is deactivated.")
    ELSE IF v < 0 THEN ApiError(400, "Score must be a non-negative integer")
    ELSE IF g \notin Games THEN ApiError(404, "Game not found")
    ELSE IF ~gameActive[g] THEN ApiError(400, "This game is currently inactive")
    ELSE [name |-> "ok"]

\* the checks without the isActive test on the game
SubmitCheck_NoActive(u, g, v) ==
    IF ~userActive[u] THEN ApiError(401, "User account is deactivated.")
    ELSE IF v < 0 THEN ApiError(400, "Score must be a non-negative integer")
    ELSE IF g \notin Games THEN ApiError(404, "Game not found")
    ELSE IF GameMaxScore[g] # 0 /\ v > GameMaxScore[g]
         THEN ApiError(400, "Score cannot exceed maximum")
    ELSE [name |-> "ok"]

\* what verifyToken, scoreValidation and the head of submitScore throw for a
\* request, in the order they run; "ok" when the request passes them all
SubmitCheck(u, g, v) ==
    IF ~userActive[u] THEN ApiError(401, "User account is deactivated.")
    ELSE IF v < 0 THEN ApiError(400, "Score must be a non-negative integer")
    ELSE IF g \notin Games THEN ApiError(404, "Game not found")
    ELSE IF ~gameActive[g] THEN ApiError(400, "This game is currently inactive")
    ELSE IF GameMaxScore[g] # 0 /\ v > GameMaxScore[g]
         THEN ApiError(400, "Score cannot exceed maximum")
    ELSE [name |-> "ok"]

SubmitResp(out) ==
    [op |-> "submitScore", status |-> out.status, success |-> out.success,
     error |-> out.error, message |-> out.message, data |-> out.data]

NoData == [gameId |-> MissingGame, score |-> Null, gameRank |-> Null, globalRank |-> Null]
Failure(err) ==
    [status |-> errorHandler(err).status, success |-> errorHandler(err).success,
     error |-> err.name, message |-> errorHandler(err).message, data |-> NoData]
\* res.status(201).json({ success: true, ..., data: { score, gameId, ranks } })
Created(g, v, ranks) ==
    [status |-> 201, success |-> TRUE, error |-> "none",
     message |-> "Score submitted successfully",
     data |-> [gameId |-> g, score |-> v,
               gameRank |-> ranks.gameRank, globalRank |-> ranks.globalRank]]

\* ------------------------------------------------------------------- Init
\* an empty scores table and an empty Redis, two registered users, two games
Init ==
    /\ ledger = [r \in {} |-> 0]
    /\ gameActive = [g \in Games |-> TRUE]
    /\ userActive = [u \in Users |-> TRUE]
    /\ username = [u \in Users |-> IF u = "u1" THEN "a" ELSE "b"]
    /\ redis = EmptyRedis
    /\ now = 0
    /\ sub = NoSub
    /\ resp = NoResp
    /\ clean = TRUE
    /\ lost = FALSE
    /\ wroteAt = [k \in {} |-> 0]
    /\ fs = [c \in Callers |-> NoSync]
    /\ srv = Serving
    /\ inflight = [c \in Callers |-> NoSync]

\* ------------------------------------------------------- POST /api/scores
\* a handler that projects the score into Redis although Score.create rejected
OnCreateRejected_Projected(u, g, v) ==
    LET cmds == AddScorePipeline(u, g, v, username[u], now)
    IN  Exec(cmds, Len(cmds), redis)

\* the keyspace after Score.create rejected: the throw skips addScore
OnCreateRejected(u, g, v) == redis

\* a handler that calls addScore before Score.create
SubmitScore_RedisFirst(u, g, v) ==
    /\ sub = NoSub
    /\ ScoreCount(ledger) < MaxRecords
    /\ SubmitCheck(u, g, v).name = "ok"
    /\ redis' = OnCreateRejected_Projected(u, g, v)
    /\ sub' = [pc |-> "create", userId |-> u, username |-> username[u],
               gameId |-> g, score |-> v, submittedAt |-> now]
    /\ resp' = NoResp
    /\ UNCHANGED <<ledger, gameActive, userActive, username, now, clean>>

\* Up to its second await: verifyToken, scoreValidation, Game.findByPk, the
\* maxScore test and Score.create. A request that fails a test, or whose
\* Score.create rejects, is answered by errorHandler.
SubmitScore(u, g, v) ==
    /\ sub = NoSub
    /\ ScoreCount(ledger) < MaxRecords
    /\ LET err == SubmitCheck(u, g, v)
       IN  IF err.name # "ok"
           THEN /\ resp' = SubmitResp(Failure(err))
                /\ UNCHANGED <<ledger, redis, sub>>
           ELSE \/ /\ ledger' = ScoreCreate(ledger, ScoreRecord(u, g, v, now))
                   /\ sub' = [pc |-> "addScore", userId |-> u, username |-> username[u],
                              gameId |-> g, score |-> v, submittedAt |-> now]
                   /\ resp' = NoResp
                   /\ UNCHANGED redis
                \/ /\ resp' = SubmitResp(Failure([name |-> "SequelizeDatabaseError",
                                                  message |-> "Score.create failed"]))
                   /\ redis' = OnCreateRejected(u, g, v)
                   /\ UNCHANGED <<ledger, sub>>
    /\ UNCHANGED <<gameActive, userActive, username, now, clean>>

\* From leaderboardService.addScore to the 201 response.
SubmitAddScore ==
    /\ sub.pc = "addScore"
    /\ LET cmds == AddScorePipeline(sub.userId, sub.gameId, sub.score, sub.username, now)
       IN  /\ redis' = Exec(cmds, Len(cmds), redis)
           /\ resp' = SubmitResp(
                          Created(sub.gameId, sub.score,
                                  AddScoreRanks(redis', sub.userId, sub.gameId, sub.username)))
    /\ sub' = NoSub
    /\ UNCHANGED <<ledger, gameActive, userActive, username, now, clean>>

\* ------------------------------------------- submitScore calls that overlap
\* submitScore up to the call of addScore: the checks and Score.create have
\* run and the pipeline is built; `overlapped` records that another call of
\* the same user was inside its pipeline at that moment
ConcSubmit(c, u, g, v) ==
    /\ inflight[c].pc \in {"idle", "done"}
    /\ ScoreCount(ledger) < MaxRecords
    /\ SubmitCheck(u, g, v).name = "ok"
    /\ ledger' = ScoreCreate(ledger, ScoreRecord(u, g, v, now))
    /\ inflight' = [inflight EXCEPT ![c] =
                       [pc |-> "pipeline", userId |-> u, username |-> username[u],
                        gameId |-> g, score |-> v, i |-> 0,
                        cmds |-> AddScorePipeline(u, g, v, username[u], now),
                        overlapped |-> \E o \in Callers \ {c} :
                                          /\ inflight[o].pc = "pipeline"
                                          /\ inflight[o].userId = u
                                          /\ inflight[o].i > 0]]
    /\ resp' = NoResp
    /\ UNCHANGED <<gameActive, userActive, username, redis, now, sub, clean>>

\* Redis runs the next command of the call's pipeline
ConcCommand(c) ==
    /\ inflight[c].pc = "pipeline"
    /\ inflight[c].i < Len(inflight[c].cmds)
    /\ redis' = Apply(inflight[c].cmds[inflight[c].i + 1], redis)
    /\ inflight' = [inflight EXCEPT ![c].i = @ + 1]
    /\ resp' = NoResp
    /\ UNCHANGED <<ledger, gameActive, userActive, username, now, sub, clean>>

\* the pipeline has run: the ranks are read and the 201 response is sent
ConcDone(c) ==
    /\ inflight[c].pc = "pipeline"
    /\ inflight[c].i = Len(inflight[c].cmds)
    /\ resp' = SubmitResp(
                   Created(inflight[c].gameId, inflight[c].score,
                           AddScoreRanks(redis, inflight[c].userId, inflight[c].gameId,
                                         inflight[c].username)))
    /\ inflight' = [inflight EXCEPT ![c] =
                       [pc |-> "done", userId |-> inflight[c].userId,
                        overlapped |-> inflight[c].overlapped]]
    /\ UNCHANGED <<ledger, gameActive, userActive, username, redis, now, sub, clean>>

\* addScore rejects because Redis failed: any prefix of the pipeline may have
\* been applied (all of it when a rank read fails), and errorHandler answers
SubmitAddScoreFailed ==
    /\ sub.pc = "addScore"
    /\ LET cmds == AddScorePipeline(sub.userId, sub.gameId, sub.score, sub.username, now)
       IN  \E n \in 0 .. Len(cmds) :
              /\ redis' = Exec(cmds, n, redis)
              /\ resp' = SubmitResp(Failure([name |-> "ReplyError",
                                            message |-> "Redis command failed"]))
    /\ sub' = NoSub
    /\ clean' = FALSE
    /\ UNCHANGED <<ledger, gameActive, userActive, username, now>>

\* ------------------------------------------------------ leaderboardSync.js
ActiveGames == {g \in Games : gameActive[g]}
\* User.findAll({ where: { isActive: true }, attributes: ['id', 'username'] })
ActiveUsers == {[id |-> u, username |-> username[u]] : u \in {x \in Users : userActive[x]}}

\* a clear that also drops every time-scoped key
ClearBoards_WithTime(st, games) ==
    [global |-> EmptyBoard,
     game |-> [g \in Games |-> IF g \in games THEN EmptyBoard ELSE st.game[g]],
     time |-> EmptyTime,
     ttl |-> EmptyTime]

\* the pipeline that clears the global board and the active games' boards
RECURSIVE ClearBoards(_, _)
ClearBoards(st, games) ==
    IF games = {} THEN Apply([op |-> "del", key |-> GLOBAL_LEADERBOARD], st)
    ELSE LET g == CHOOSE x \in games : TRUE
         IN  Apply([op |-> "del", key |-> GAME_LEADERBOARD(g)], ClearBoards(st, games \ {g}))

\* an inner loop that writes the sum of the user's scores in the game
RECURSIVE SyncUserGames_Total(_, _, _, _)
SyncUserGames_Total(acc, l, user, games) ==
    IF games = {} THEN acc
    ELSE LET g == CHOOSE x \in games : TRUE
             bestScore == ScoreMax(l, user.id, g)
             total == BagSum(l, {r \in DOMAIN l : r.userId = user.id /\ r.gameId = g})
             member == Member(user.id, user.username)
         IN  SyncUserGames_Total(
                 IF bestScore # Null
                 THEN [st |-> Apply([op |-> "zadd", key |-> GAME_LEADERBOARD(g),
                                     score |-> total, member |-> member], acc.st),
                       n |-> acc.n + 1]
                 ELSE acc,
                 l, user, games \ {g})

\* the inner loop: one user's best score per game
RECURSIVE SyncUserGames(_, _, _, _)
SyncUserGames(acc, l, user, games) ==
    IF games = {} THEN acc
    ELSE LET g == CHOOSE x \in games : TRUE
             bestScore == ScoreMax(l, user.id, g)
             member == Member(user.id, user.username)
         IN  SyncUserGames(
                 IF bestScore # Null
                 THEN [st |-> Apply([op |-> "zadd", key |-> GAME_LEADERBOARD(g),
                                     score |-> bestScore, member |-> member], acc.st),
                       n |-> acc.n + 1]
                 ELSE acc,
                 l, user, games \ {g})

\* the outer loop: per user, the game boards and then the global total
RECURSIVE SyncUsers(_, _, _, _)
SyncUsers(acc, l, users, games) ==
    IF users = {} THEN acc
    ELSE LET user == CHOOSE x \in users : TRUE
             a1 == SyncUserGames(acc, l, user, games)
             totalScore == ScoreSum(l, user.id)
             member == Member(user.id, user.username)
         IN  SyncUsers(
                 IF totalScore > 0
                 THEN [a1 EXCEPT !.st = Apply([op |-> "zadd", key |-> GLOBAL_LEADERBOARD,
                                               score |-> totalScore, member |-> member], @)]
                 ELSE a1,
                 l, users \ {user}, games)

\* today.setHours(0,0,0,0); startOfWeek = today - today.getDay() (back to
\* Sunday; January 1st is taken to be a Thursday); startOfMonth = the 1st
Today(t) == Days(DayOf(t))
StartOfWeek(t) == Today(t) - Days((DayOf(t) + 4) % 7)
StartOfMonth(t) == IF DayOf(t) < 31 THEN Days(0) ELSE Days(31)

\* zadd + expire of one time-scoped board whatever the sum
RebuildOne_Always(st, key, score, member, at) ==
    Apply([op |-> "expire", key |-> key, at |-> at],
          Apply([op |-> "zadd", key |-> key, score |-> score, member |-> member], st))

\* a rebuild that adds the sum to the entry instead of setting it
RebuildOne_Incr(st, key, score, member, at) ==
    IF score > 0
    THEN Apply([op |-> "expire", key |-> key, at |-> at],
               Apply([op |-> "zincrby", key |-> key, score |-> score, member |-> member], st))
    ELSE st

\* zadd + expire of one time-scoped board, skipped when the sum is not positive
RebuildOne(st, key, score, member, at) ==
    IF score > 0
    THEN Apply([op |-> "expire", key |-> key, at |-> at],
               Apply([op |-> "zadd", key |-> key, score |-> score, member |-> member], st))
    ELSE st

RECURSIVE rebuildTimeBasedLeaderboards(_, _, _, _)
rebuildTimeBasedLeaderboards(st, l, users, t) ==
    IF users = {} THEN st
    ELSE LET user == CHOOSE x \in users : TRUE
             member == Member(user.id, user.username)
             d == getDateStrings(t)
             s1 == RebuildOne(st, DAILY_LEADERBOARD(d.date),
                              ScoreSumSince(l, user.id, Today(t)), member, t + Days(DAILY_TTL))
             s2 == RebuildOne(s1, WEEKLY_LEADERBOARD(d.week),
                              ScoreSumSince(l, user.id, StartOfWeek(t)), member, t + Days(WEEKLY_TTL))
             s3 == RebuildOne(s2, MONTHLY_LEADERBOARD(d.month),
                              ScoreSumSince(l, user.id, StartOfMonth(t)), member, t + Days(MONTHLY_TTL))
         IN  rebuildTimeBasedLeaderboards(s3, l, users \ {user}, t)

\* forceSyncLeaderboards, run with nothing else in between: the keyspace it
\* leaves and the counts it returns
forceSyncLeaderboards ==
    LET games == ActiveGames
        users == ActiveUsers
        acc == SyncUsers([st |-> ClearBoards(redis, games), n |-> 0], ledger, users, games)
    IN  [st |-> rebuildTimeBasedLeaderboards(acc.st, ledger, users, now),
         result |-> [synced |-> TRUE,
                     usersProcessed |-> Cardinality(users),
                     gamesProcessed |-> Cardinality(games),
                     scoresProcessed |-> acc.n]]

SyncResp(op, result) == [op |-> op] @@ result

\* POST /api/leaderboard/sync (any signed-in user may call it)
ForceLeaderboardSync ==
    /\ \E u \in Users : userActive[u]
    /\ redis' = forceSyncLeaderboards.st
    /\ resp' = SyncResp("forceSync", forceSyncLeaderboards.result)
    /\ clean' = FALSE
    /\ UNCHANGED <<ledger, gameActive, userActive, username, now, sub>>

\* --------------------------- forceSyncLeaderboards, one await after another
\* POST /api/leaderboard/sync enters forceSyncLeaderboards: Game.findAll
FsStart(c) ==
    /\ \E u \in Users : userActive[u]
    /\ fs[c].pc = "idle"
    /\ fs' = [fs EXCEPT ![c] = [pc |-> "clear", games |-> ActiveGames]]
    /\ resp' = NoResp
    /\ UNCHANGED <<ledger, gameActive, userActive, username, redis, now, sub, clean>>

\* the pipeline of DELs, then User.findAll
FsClear(c) ==
    /\ fs[c].pc = "clear"
    /\ redis' = ClearBoards(redis, fs[c].games)
    /\ fs' = [fs EXCEPT ![c] = [pc |-> "loop", games |-> fs[c].games,
                                users |-> ActiveUsers, todo |-> ActiveUsers, n |-> 0]]
    /\ resp' = NoResp
    /\ clean' = FALSE
    /\ UNCHANGED <<ledger, gameActive, userActive, username, now, sub>>

\* one round of the loop over the users: the user's game boards and total
FsUser(c) ==
    /\ fs[c].pc = "loop"
    /\ fs[c].todo # {}
    /\ LET user == CHOOSE x \in fs[c].todo : TRUE
           acc == SyncUsers([st |-> redis, n |-> fs[c].n], ledger, {user}, fs[c].games)
       IN  /\ redis' = acc.st
           /\ fs' = [fs EXCEPT ![c].todo = @ \ {user}, ![c].n = acc.n]
    /\ resp' = NoResp
    /\ UNCHANGED <<ledger, gameActive, userActive, username, now, sub, clean>>

\* the same round await by await: the user is taken up,
FsUserBegin(c) ==
    /\ fs[c].pc = "loop"
    /\ fs[c].todo # {}
    /\ fs' = [fs EXCEPT ![c] =
                 [pc |-> "max", games |-> fs[c].games, users |-> fs[c].users,
                  todo |-> fs[c].todo, n |-> fs[c].n,
                  user |-> CHOOSE x \in fs[c].todo : TRUE, gtodo |-> fs[c].games]]
    /\ resp' = NoResp
    /\ UNCHANGED <<ledger, gameActive, userActive, username, redis, now, sub, clean>>

\* await Score.max(...) for the next game,
FsReadMax(c) ==
    /\ fs[c].pc = "max"
    /\ fs[c].gtodo # {}
    /\ LET g == CHOOSE x \in fs[c].gtodo : TRUE
       IN  fs' = [fs EXCEPT ![c] =
                     [pc |-> "zadd", games |-> fs[c].games, users |-> fs[c].users,
                      todo |-> fs[c].todo, n |-> fs[c].n,
                      user |-> fs[c].user, gtodo |-> fs[c].gtodo,
                      game |-> g, bestScore |-> ScoreMax(ledger, fs[c].user.id, g)]]
    /\ resp' = NoResp
    /\ UNCHANGED <<ledger, gameActive, userActive, username, redis, now, sub, clean>>

\* await redis.zadd(...) of the maximum that was read, when it is not null,
FsWriteMax(c) ==
    /\ fs[c].pc = "zadd"
    /\ redis' = IF fs[c].bestScore # Null
                THEN Apply([op |-> "zadd", key |-> GAME_LEADERBOARD(fs[c].game),
                            score |-> fs[c].bestScore,
                            member |-> Member(fs[c].user.id, fs[c].user.username)], redis)
                ELSE redis
    /\ fs' = [fs EXCEPT ![c] =
                 [pc |-> "max", games |-> fs[c].games, users |-> fs[c].users,
                  todo |-> fs[c].todo,
                  n |-> IF fs[c].bestScore # Null THEN fs[c].n + 1 ELSE fs[c].n,
                  user |-> fs[c].user, gtodo |-> fs[c].gtodo \ {fs[c].game}]]
    /\ resp' = NoResp
    /\ UNCHANGED <<ledger, gameActive, userActive, username, now, sub, clean>>

\* await Score.sum(...) after the last game,
FsReadSum(c) ==
    /\ fs[c].pc = "max"
    /\ fs[c].gtodo = {}
    /\ fs' = [fs EXCEPT ![c] =
                 [pc |-> "total", games |-> fs[c].games, users |-> fs[c].users,
                  todo |-> fs[c].todo, n |-> fs[c].n,
                  user |-> fs[c].user, totalScore |-> ScoreSum(ledger, fs[c].user.id)]]
    /\ resp' = NoResp
    /\ UNCHANGED <<ledger, gameActive, userActive, username, redis, now, sub, clean>>

\* and await redis.zadd(...) of the total that was read, when it is positive
FsWriteSum(c) ==
    /\ fs[c].pc = "total"
    /\ redis' = IF fs[c].totalScore > 0
                THEN Apply([op |-> "zadd", key |-> GLOBAL_LEADERBOARD,
                            score |-> fs[c].totalScore,
                            member |-> Member(fs[c].user.id, fs[c].user.username)], redis)
                ELSE redis
    /\ fs' = [fs EXCEPT ![c] =
                 [pc |-> "loop", games |-> fs[c].games, users |-> fs[c].users,
                  todo |-> fs[c].todo \ {fs[c].user}, n |-> fs[c].n]]
    /\ resp' = NoResp
    /\ UNCHANGED <<ledger, gameActive, userActive, username, now, sub, clean>>

\* after the loop: rebuildTimeBasedLeaderboards and the result
FsFinish(c) ==
    /\ fs[c].pc = "loop"
    /\ fs[c].todo = {}
    /\ redis' = rebuildTimeBasedLeaderboards(redis, ledger, fs[c].users, now)
    /\ resp' = SyncResp("forceSync",
                        [synced |-> TRUE,
                         usersProcessed |-> Cardinality(fs[c].users),
                         gamesProcessed |-> Cardinality(fs[c].games),
                         scoresProcessed |-> fs[c].n])
    /\ fs' = [fs EXCEPT ![c] = NoSync]
    /\ UNCHANGED <<ledger, gameActive, userActive, username, now, sub, clean>>

\* the startup check without its test: every start rebuilds
syncLeaderboardsFromDB_Always ==
    [st |-> forceSyncLeaderboards.st, result |-> forceSyncLeaderboards.result]

\* the startup check with its test turned around
syncLeaderboardsFromDB_Inverted ==
    IF ZCard(Board(redis, GLOBAL_LEADERBOARD)) = 0
    THEN [st |-> redis,
          result |-> [synced |-> FALSE, reason |-> "Redis already has data"]]
    ELSE [st |-> forceSyncLeaderboards.st, result |-> forceSyncLeaderboards.result]

\* syncLeaderboardsFromDB: skip when the global board has an entry
syncLeaderboardsFromDB ==
    IF ZCard(Board(redis, GLOBAL_LEADERBOARD)) > 0
    THEN [st |-> redis,
          result |-> [synced |-> FALSE, reason |-> "Redis already has data"]]
    ELSE [st |-> forceSyncLeaderboards.st, result |-> forceSyncLeaderboards.result]

\* startServer: the sync step of a process start; the server is not listening
\* yet, so no request is in flight
StartServerSync ==
    /\ sub = NoSub
    /\ redis' = syncLeaderboardsFromDB.st
    /\ resp' = SyncResp("checkAndSync", syncLeaderboardsFromDB.result)
    /\ clean' = (clean /\ ~syncLeaderboardsFromDB.result.synced)
    /\ UNCHANGED <<ledger, gameActive, userActive, username, now, sub>>

\* ------------------------------------------------------------ startServer
\* app.listen called although the sync step has not returned
StartListen_Early ==
    /\ srv.pc \in {"sync", "listen"}
    /\ srv' = [srv EXCEPT !.pc = "serving"]
    /\ resp' = [op |-> "listen"]
    /\ UNCHANGED <<ledger, gameActive, userActive, username, redis, now, sub, clean>>

\* await syncLeaderboardsFromDB() returns
StartSync ==
    /\ srv.pc = "sync"
    /\ StartServerSync
    /\ srv' = [pc |-> "listen", sync |-> "done"]

\* await syncLeaderboardsFromDB() throws (redis.zcard rejects): the catch of
\* startServer ends the process
StartSyncFails ==
    /\ srv.pc = "sync"
    /\ srv' = [pc |-> "exited", sync |-> "failed"]
    /\ resp' = [op |-> "exit", code |-> 1]
    /\ UNCHANGED <<ledger, gameActive, userActive, username, redis, now, sub, clean>>

\* app.listen: from here on requests reach the handlers
StartListen ==
    /\ srv.pc = "listen"
    /\ srv' = [srv EXCEPT !.pc = "serving"]
    /\ resp' = [op |-> "listen"]
    /\ UNCHANGED <<ledger, gameActive, userActive, username, redis, now, sub, clean>>

\* the process ends (gracefulShutdown, or it has exited) and a new one starts
StartServer ==
    /\ srv.pc \in {"serving", "exited"}
    /\ sub = NoSub
    /\ srv' = Started
    /\ resp' = NoResp
    /\ UNCHANGED <<ledger, gameActive, userActive, username, redis, now, sub, clean>>

\* getSyncStatus
getSyncStatus ==
    [database |-> [users |-> Cardinality({u \in Users : userActive[u]}),
                   totalScores |-> ScoreCount(ledger)],
     redisGlobal |-> ZCard(Board(redis, GLOBAL_LEADERBOARD)),
     games |-> [g \in ActiveGames |->
                  [dbPlayers |-> ScoreCountDistinctUsers(ledger, g),
                   redisPlayers |-> ZCard(Board(redis, GAME_LEADERBOARD(g))),
                   inSync |-> ScoreCountDistinctUsers(ledger, g)
                                = ZCard(Board(redis, GAME_LEADERBOARD(g)))]],
     overallInSync |-> ZCard(Board(redis, GLOBAL_LEADERBOARD)) > 0]

\* a status request that rebuilds the boards before it answers
GetLeaderboardSyncStatus_Resync ==
    /\ \E u \in Users : userActive[u]
    /\ redis' = forceSyncLeaderboards.st
    /\ resp' = [op |-> "status", data |-> getSyncStatus]
    /\ UNCHANGED <<ledger, gameActive, userActive, username, now, sub, clean>>

\* GET /api/leaderboard/sync/status
GetLeaderboardSyncStatus ==
    /\ \E u \in Users : userActive[u]
    /\ resp' = [op |-> "status", data |-> getSyncStatus]
    /\ UNCHANGED <<ledger, gameActive, userActive, username, redis, now, sub, clean>>

\* ------------------------------------------------------- the other writers
\* a delete that removes the game's score rows with it
DeleteGame_Cascade(g) ==
    /\ \E u \in Users : userActive[u]
    /\ g \in Games
    /\ gameActive' = [gameActive EXCEPT ![g] = FALSE]
    /\ ledger' = [r \in {x \in DOMAIN ledger : x.gameId # g} |-> ledger[r]]
    /\ resp' = [op |-> "deleteGame"]
    /\ UNCHANGED <<userActive, username, redis, now, sub, clean>>

\* DELETE /api/games/:gameId: soft delete
DeleteGame(g) ==
    /\ \E u \in Users : userActive[u]
    /\ g \in Games
    /\ gameActive' = [gameActive EXCEPT ![g] = FALSE]
    /\ resp' = [op |-> "deleteGame"]
    /\ UNCHANGED <<ledger, userActive, username, redis, now, sub, clean>>

\* PUT /api/games/:gameId with isActive in the body
UpdateGame(g, isActive) ==
    /\ \E u \in Users : userActive[u]
    /\ g \in Games
    /\ gameActive' = [gameActive EXCEPT ![g] = isActive]
    /\ resp' = [op |-> "updateGame"]
    /\ UNCHANGED <<ledger, userActive, username, redis, now, sub, clean>>

\* an account is deactivated (User.isActive set to false)
DeactivateUser(u) ==
    /\ userActive[u]
    /\ userActive' = [userActive EXCEPT ![u] = FALSE]
    /\ resp' = [op |-> "deactivateUser"]
    /\ UNCHANGED <<ledger, gameActive, username, redis, now, sub, clean>>

\* PUT /api/auth/me: a username taken by another user is refused
UpdateMe(u, name) ==
    /\ userActive[u]
    /\ IF \E o \in Users \ {u} : username[o] = name
       THEN /\ resp' = [op |-> "updateMe", status |-> 400]
            /\ UNCHANGED <<username, clean>>
       ELSE /\ username' = [username EXCEPT ![u] = name]
            /\ resp' = [op |-> "updateMe", status |-> 200]
            /\ clean' = (clean /\ name = username[u])
    /\ UNCHANGED <<ledger, gameActive, userActive, redis, now, sub>>

\* Redis restarts without its data
RedisRestart ==
    /\ redis # EmptyRedis
    /\ redis' = EmptyRedis
    /\ resp' = [op |-> "redisRestart"]
    /\ clean' = FALSE
    /\ UNCHANGED <<ledger, gameActive, userActive, username, now, sub>>

\* every handler other than submitScore, each run from start to end
Others ==
    \/ ForceLeaderboardSync
    \/ StartServerSync
    \/ GetLeaderboardSyncStatus
    \/ \E g \in Games : DeleteGame(g)
    \/ \E g \in Games, a \in BOOLEAN : UpdateGame(g, a)
    \/ \E u \in Users : DeactivateUser(u)
    \/ RedisRestart

\* Redis drops a key once its TTL deadline is reached
Expire(st, t) ==
    [global |-> IF "global" \in DOMAIN st.ttl /\ st.ttl["global"] <= t
                THEN EmptyBoard ELSE st.global,
     game |-> [g \in Games |-> IF g \in DOMAIN st.ttl /\ st.ttl[g] <= t
                               THEN EmptyBoard ELSE st.game[g]],
     time |-> [k \in {x \in DOMAIN st.time :
                        st.time[x].expireAt = NoExpiry \/ st.time[x].expireAt > t} |->
                  st.time[k]],
     ttl |-> [k \in {x \in DOMAIN st.ttl : st.ttl[x] > t} |-> st.ttl[k]]]

\* the clock stops once a daily board written on the first day is past any
\* deadline it can have
MaxTime == Days(DAILY_TTL + 1)

\* the clock moves on by one tick
Tick ==
    /\ now < MaxTime
    /\ now' = now + 1
    /\ redis' = Expire(redis, now + 1)
    /\ resp' = [op |-> "tick"]
    /\ UNCHANGED <<ledger, gameActive, userActive, username, sub, clean>>

\* requests are served one at a time: nothing else runs while a submitScore
\* waits on Redis
Next ==
    \/ (\E u \in Users, g \in GameIds, v \in Values : SubmitScore(u, g, v)) /\ UNCHANGED aux
    \/ SubmitAddScore /\ UNCHANGED aux
    \/ sub = NoSub /\ Others /\ UNCHANGED aux

Spec == Init /\ [][Next]_vars

\* the same system with Redis failing under addScore
NextRedisFail ==
    \/ (\E u \in Users, g \in GameIds, v \in Values : SubmitScore(u, g, v)) /\ UNCHANGED aux
    \/ SubmitAddScore /\ UNCHANGED aux
    \/ SubmitAddScoreFailed /\ UNCHANGED aux

SpecRedisFail == Init /\ [][NextRedisFail]_vars

\* the service under Redis restarts: requests keep arriving while Redis is
\* empty, and a process start runs the startup sync; lost records whether
\* Redis lost its data since the last startup sync. Submitted scores are not 0
\* here, so that every user with a record has a positive total.
NextRestart ==
    \/ (\E u \in Users, g \in Games, v \in Values \ {0} : SubmitScore(u, g, v))
          /\ UNCHANGED <<lost, wroteAt, fs, srv, inflight>>
    \/ SubmitAddScore /\ UNCHANGED <<lost, wroteAt, fs, srv, inflight>>
    \/ sub = NoSub /\ RedisRestart /\ lost' = TRUE /\ UNCHANGED <<wroteAt, fs, srv, inflight>>
    \/ sub = NoSub /\ StartServerSync /\ lost' = FALSE /\ UNCHANGED <<wroteAt, fs, srv, inflight>>

SpecRestart == Init /\ [][NextRestart]_vars

\* the members a rebuild at time t writes into the daily board of that day
DailyRebuilt(t) ==
    {Member(user.id, user.username) :
        user \in {x \in ActiveUsers : ScoreSumSince(ledger, x.id, Today(t)) > 0}}

\* wroteAt after entries of the daily board of day d were written at time t
Stamp(w, d, members, t) ==
    [k \in DOMAIN w \cup {<<d, m>> : m \in members} |->
        IF k \in {<<d, m>> : m \in members} THEN t ELSE w[k]]

\* the game the submissions of the clocked runs go to
TimedGame == "g2"

\* the service while the clock runs: one submission per user to one game,
\* rebuilds on demand, and Redis expiring keys; wroteAt keeps the time of the
\* last write of each entry of a daily board
NextTime ==
    \/ (\E u \in Users : ScoreSum(ledger, u) = 0 /\ SubmitScore(u, TimedGame, 1))
          /\ UNCHANGED aux
    \/ /\ SubmitAddScore
       /\ wroteAt' = Stamp(wroteAt, DateOf(now), {Member(sub.userId, sub.username)}, now)
       /\ UNCHANGED <<lost, fs, srv, inflight>>
    \/ /\ sub = NoSub /\ ForceLeaderboardSync
       /\ wroteAt' = Stamp(wroteAt, DateOf(now), DailyRebuilt(now), now)
       /\ UNCHANGED <<lost, fs, srv, inflight>>
    \/ Tick /\ UNCHANGED aux

SpecTime == Init /\ [][NextTime]_vars

\* rebuild requests arriving while submissions are served: every await of
\* forceSyncLeaderboards is a point where another request may run
NextSync ==
    \/ (\E u \in Users, g \in Games, v \in {1, 2} : SubmitScore(u, g, v))
          /\ UNCHANGED <<lost, wroteAt, fs, srv, inflight>>
    \/ SubmitAddScore /\ UNCHANGED <<lost, wroteAt, fs, srv, inflight>>
    \/ (\E c \in Callers : FsStart(c)) /\ UNCHANGED <<lost, wroteAt, srv, inflight>>
    \/ (\E c \in Callers : FsClear(c)) /\ UNCHANGED <<lost, wroteAt, srv, inflight>>
    \/ (\E c \in Callers : FsUser(c)) /\ UNCHANGED <<lost, wroteAt, srv, inflight>>
    \/ (\E c \in Callers : FsFinish(c)) /\ UNCHANGED <<lost, wroteAt, srv, inflight>>

SpecSync == Init /\ [][NextSync]_vars

\* submitScore calls of two callers, their pipelines interleaved command by
\* command
NextConc ==
    \/ (\E c \in Callers, u \in Users, g \in Games, v \in {1, 2} : ConcSubmit(c, u, g, v))
          /\ UNCHANGED <<lost, wroteAt, fs, srv>>
    \/ (\E c \in Callers : ConcCommand(c)) /\ UNCHANGED <<lost, wroteAt, fs, srv>>
    \/ (\E c \in Callers : ConcDone(c)) /\ UNCHANGED <<lost, wroteAt, fs, srv>>

SpecConc == Init /\ [][NextConc]_vars

\* one caller rebuilds while the other submits scores of one user to one game
SyncCaller == "r1"
SubmitCaller == "r2"
RaceUser == "u1"
RaceGame == "g2"
NextRace ==
    \/ (\E v \in {1, 2} : ConcSubmit(SubmitCaller, RaceUser, RaceGame, v))
          /\ UNCHANGED <<lost, wroteAt, fs, srv>>
    \/ ConcCommand(SubmitCaller) /\ UNCHANGED <<lost, wroteAt, fs, srv>>
    \/ ConcDone(SubmitCaller) /\ UNCHANGED <<lost, wroteAt, fs, srv>>
    \/ FsStart(SyncCaller) /\ UNCHANGED <<lost, wroteAt, srv, inflight>>
    \/ FsClear(SyncCaller) /\ UNCHANGED <<lost, wroteAt, srv, inflight>>
    \/ FsUserBegin(SyncCaller) /\ UNCHANGED <<lost, wroteAt, srv, inflight>>
    \/ FsReadMax(SyncCaller) /\ UNCHANGED <<lost, wroteAt, srv, inflight>>
    \/ FsWriteMax(SyncCaller) /\ UNCHANGED <<lost, wroteAt, srv, inflight>>
    \/ FsReadSum(SyncCaller) /\ UNCHANGED <<lost, wroteAt, srv, inflight>>
    \/ FsWriteSum(SyncCaller) /\ UNCHANGED <<lost, wroteAt, srv, inflight>>
    \/ FsFinish(SyncCaller) /\ UNCHANGED <<lost, wroteAt, srv, inflight>>

SpecRace == Init /\ [][NextRace]_vars

\* the life of the process: requests are handled only while it listens
InitStart ==
    /\ ledger = [r \in {} |-> 0]
    /\ gameActive = [g \in Games |-> TRUE]
    /\ userActive = [u \in Users |-> TRUE]
    /\ username = [u \in Users |-> IF u = "u1" THEN "a" ELSE "b"]
    /\ redis = EmptyRedis
    /\ now = 0
    /\ sub = NoSub
    /\ resp = NoResp
    /\ clean = TRUE
    /\ lost = FALSE
    /\ wroteAt = [k \in {} |-> 0]
    /\ fs = [c \in Callers |-> NoSync]
    /\ srv = Started
    /\ inflight = [c \in Callers |-> NoSync]

NextStart ==
    \/ StartSync /\ UNCHANGED <<lost, wroteAt, fs, inflight>>
    \/ StartSyncFails /\ UNCHANGED <<lost, wroteAt, fs, inflight>>
    \/ StartListen /\ UNCHANGED <<lost, wroteAt, fs, inflight>>
    \/ StartServer /\ UNCHANGED <<lost, wroteAt, fs, inflight>>
    \/ sub = NoSub /\ RedisRestart /\ UNCHANGED aux
    \/ /\ srv.pc = "serving"
       /\ \E u \in Users, g \in Games, v \in {1, 2} : SubmitScore(u, g, v)
       /\ UNCHANGED aux
    \/ srv.pc = "serving" /\ SubmitAddScore /\ UNCHANGED aux

SpecStart == InitStart /\ [][NextStart]_vars

\* ------------------------------------------------------------ read requests
\* GET /api/leaderboard/global?limit&offset
GetGlobalLeaderboard(limit, offset) ==
    /\ resp' = [op |-> "getGlobalLeaderboard", gameId |-> NoGame,
                limit |-> limit, offset |-> offset,
                leaderboard |-> getGlobalLeaderboard(redis, limit, offset),
                total |-> getLeaderboardSize(redis, NoGame)]
    /\ UNCHANGED <<ledger, gameActive, userActive, username, redis, now, sub, clean>>

\* GET /api/leaderboard/game/:gameId?limit&offset
GetGameLeaderboard(g, limit, offset) ==
    /\ g \in Games
    /\ resp' = [op |-> "getGameLeaderboard", gameId |-> g,
                limit |-> limit, offset |-> offset,
                leaderboard |-> getGameLeaderboard(redis, g, limit, offset),
                total |-> getLeaderboardSize(redis, g)]
    /\ UNCHANGED <<ledger, gameActive, userActive, username, redis, now, sub, clean>>

\* GET /api/leaderboard/rank?gameId
GetUserRanking(u, g) ==
    /\ userActive[u]
    /\ g \in Games \cup {NoGame}
    /\ resp' = IF g # NoGame
               THEN [op |-> "getUserRanking", userId |-> u, gameId |-> g,
                     rank |-> getUserGameRank(redis, u, g, username[u]).rank,
                     score |-> getUserGameRank(redis, u, g, username[u]).score]
               ELSE [op |-> "getUserRanking", userId |-> u, gameId |-> g,
                     rank |-> getUserGlobalRank(redis, u, username[u]).rank,
                     score |-> getUserGlobalRank(redis, u, username[u]).totalScore]
    /\ UNCHANGED <<ledger, gameActive, userActive, username, redis, now, sub, clean>>

\* GET /api/leaderboard/around?gameId&range
GetPlayersAround(u, g, range) ==
    /\ userActive[u]
    /\ g \in Games \cup {NoGame}
    /\ resp' = [op |-> "getPlayersAround", userId |-> u, gameId |-> g, range |-> range,
                userRank |-> getPlayersAroundUser(redis, u, username[u], g, range).userRank,
                players |-> getPlayersAroundUser(redis, u, username[u], g, range).players]
    /\ UNCHANGED <<ledger, gameActive, userActive, username, redis, now, sub, clean>>

\* GET /api/leaderboard/report/top?period&limit
GetTopPlayersReport(period, limit) ==
    /\ period \in Periods
    /\ resp' = [op |-> "getTopPlayersReport", period |-> period, limit |-> limit,
                topPlayers |-> getTopPlayersByPeriod(redis, period, limit, now)]
    /\ UNCHANGED <<ledger, gameActive, userActive, username, redis, now, sub, clean>>

\* the sorted sets a board can hold: any set of members, with scores that tie
ReadBoards == UNION {[S -> {1, 2}] : S \in SUBSET Members}
ReadGame == "g1"

\* the reads over every board: the global board or one game board holds any
\* of the sorted sets, and nothing writes
InitReads ==
    /\ ledger = [r \in {} |-> 0]
    /\ gameActive = [g \in Games |-> TRUE]
    /\ userActive = [u \in Users |-> TRUE]
    /\ username = [u \in Users |-> IF u = "u1" THEN "a" ELSE "b"]
    /\ \E b \in ReadBoards :
          \/ redis = SetBoard(EmptyRedis, GLOBAL_LEADERBOARD, b)
          \/ redis = SetBoard(EmptyRedis, GAME_LEADERBOARD(ReadGame), b)
    /\ now = 0
    /\ sub = NoSub
    /\ resp = NoResp
    /\ clean = FALSE
    /\ lost = FALSE
    /\ wroteAt = [k \in {} |-> 0]
    /\ fs = [c \in Callers |-> NoSync]
    /\ srv = Serving
    /\ inflight = [c \in Callers |-> NoSync]

NextReads ==
    \/ (\E limit \in 1..MaxLimit, offset \in 0..MaxOffset : GetGlobalLeaderboard(limit, offset))
          /\ UNCHANGED aux
    \/ (\E limit \in 1..MaxLimit, offset \in 0..MaxOffset :
            GetGameLeaderboard(ReadGame, limit, offset))
          /\ UNCHANGED aux
    \/ (\E u \in Users, g \in {ReadGame, NoGame} : GetUserRanking(u, g)) /\ UNCHANGED aux
    \/ (\E u \in Users, g \in {ReadGame, NoGame}, range \in 0..MaxRange :
            GetPlayersAround(u, g, range))
          /\ UNCHANGED aux

SpecReads == InitReads /\ [][NextReads]_vars

\* one user's submissions over the first days of the year, with rebuilds
WeekUser == "u1"
NextWeek ==
    \/ SubmitScore(WeekUser, TimedGame, 1) /\ UNCHANGED aux
    \/ SubmitAddScore /\ UNCHANGED aux
    \/ sub = NoSub /\ ForceLeaderboardSync /\ UNCHANGED aux
    \/ Tick /\ UNCHANGED aux

SpecWeek == Init /\ [][NextWeek]_vars

\* the reads over a global board that holds a member stored as plain text
\* next to any of the two users' members
LegacyBoards ==
    UNION {[S \cup {LegacyMember} -> {1, 2}] :
              S \in SUBSET {Member("u1", "a"), Member("u2", "b")}}

InitLegacy ==
    /\ ledger = [r \in {} |-> 0]
    /\ gameActive = [g \in Games |-> TRUE]
    /\ userActive = [u \in Users |-> TRUE]
    /\ username = [u \in Users |-> IF u = "u1" THEN "a" ELSE "b"]
    /\ \E b \in LegacyBoards : redis = SetBoard(EmptyRedis, GLOBAL_LEADERBOARD, b)
    /\ now = 0
    /\ sub = NoSub
    /\ resp = NoResp
    /\ clean = FALSE
    /\ lost = FALSE
    /\ wroteAt = [k \in {} |-> 0]
    /\ fs = [c \in Callers |-> NoSync]
    /\ srv = Serving
    /\ inflight = [c \in Callers |-> NoSync]

NextLegacy ==
    \/ (\E limit \in 1..MaxLimit, offset \in 0..MaxOffset : GetGlobalLeaderboard(limit, offset))
          /\ UNCHANGED aux
    \/ (\E u \in Users, range \in 0..MaxRange : GetPlayersAround(u, NoGame, range))
          /\ UNCHANGED aux
    \/ (\E limit \in 1..MaxLimit : GetTopPlayersReport("all", limit)) /\ UNCHANGED aux

SpecLegacy == InitLegacy /\ [][NextLegacy]_vars

\* the report read while submissions arrive and days pass
NextReport ==
    \/ (\E u \in Users : ScoreSum(ledger, u) = 0 /\ SubmitScore(u, TimedGame, IdOrd[u]))
          /\ UNCHANGED aux
    \/ SubmitAddScore /\ UNCHANGED aux
    \/ Tick /\ UNCHANGED aux
    \/ /\ sub = NoSub
       /\ \E period \in Periods, limit \in 1..MaxLimit : GetTopPlayersReport(period, limit)
       /\ UNCHANGED aux

SpecReport == Init /\ [][NextReport]_vars

\* every operation that can meet the scores table: submissions, the reads,
\* both syncs, the status and the deactivation of a game
NextLedger ==
    \/ (\E u \in Users, g \in Games, v \in {1, 2} : SubmitScore(u, g, v)) /\ UNCHANGED aux
    \/ SubmitAddScore /\ UNCHANGED aux
    \/ sub = NoSub /\ ForceLeaderboardSync /\ UNCHANGED aux
    \/ sub = NoSub /\ StartServerSync /\ UNCHANGED aux
    \/ sub = NoSub /\ GetLeaderboardSyncStatus /\ UNCHANGED aux
    \/ sub = NoSub /\ (\E g \in Games : DeleteGame(g)) /\ UNCHANGED aux
    \/ sub = NoSub /\ GetGlobalLeaderboard(MaxLimit, 0) /\ UNCHANGED aux
    \/ sub = NoSub /\ (\E g \in Games : GetGameLeaderboard(g, MaxLimit, 0)) /\ UNCHANGED aux
    \/ sub = NoSub /\ (\E u \in Users : GetUserRanking(u, NoGame)) /\ UNCHANGED aux
    \/ sub = NoSub /\ (\E u \in Users : GetPlayersAround(u, NoGame, MaxRange)) /\ UNCHANGED aux

SpecLedger == Init /\ [][NextLedger]_vars

\* ================================================================= claims
CurrentMember(u) == Member(u, username[u])
HasRecord(u) == \E r \in DOMAIN ledger : r.userId = u
Quiet == sub = NoSub

\* C1: while only successful submissions have run (no rebuild, no flush, no
\* rename, no failed write), the score of a user's member in a game board is
\* the highest score the user submitted to that game, and the member is absent
\* when the user submitted none; so a lower or equal submission changes nothing.
C1_CategoryBoardIsMax ==
    (clean /\ Quiet) =>
        \A u \in Users, g \in Games :
            ZScore(Board(redis, GAME_LEADERBOARD(g)), CurrentMember(u)) = ScoreMax(ledger, u, g)

\* a second, lower submission of one user to one game was just answered 201
\* and the board still shows the higher score
C1_Witness ==
    /\ clean /\ Quiet
    /\ resp.op = "submitScore" /\ resp.status = 201
    /\ ScoreCount(ledger) = 2
    /\ \E u \in Users :
          /\ \A r \in DOMAIN ledger : r.userId = u /\ r.gameId = resp.data.gameId
          /\ resp.data.score < ScoreMax(ledger, u, resp.data.gameId)
          /\ ZScore(Board(redis, GAME_LEADERBOARD(resp.data.gameId)), CurrentMember(u))
               = ScoreMax(ledger, u, resp.data.gameId)

\* C2: while only successful submissions have run, the global score of a
\* user's member is the sum of everything the user submitted, over all games.
C2_GlobalIsSum ==
    (clean /\ Quiet) =>
        \A u \in Users :
            ZScore(Board(redis, GLOBAL_LEADERBOARD), CurrentMember(u))
              = IF HasRecord(u) THEN ScoreSum(ledger, u) ELSE Null

\* one user scored in both games and the global board shows the total
C2_Witness ==
    /\ clean /\ Quiet
    /\ \E u \in Users :
          /\ \E r \in DOMAIN ledger : r.userId = u /\ r.gameId = "g1" /\ r.score > 0
          /\ \E r \in DOMAIN ledger : r.userId = u /\ r.gameId = "g2" /\ r.score > 0
          /\ ZScore(Board(redis, GLOBAL_LEADERBOARD), CurrentMember(u)) = ScoreSum(ledger, u)
          /\ ScoreSum(ledger, u) >= 2

\* a negative score, or one above the game's maxScore
InvalidScore(g, v) == v < 0 \/ (GameMaxScore[g] # 0 /\ v > GameMaxScore[g])

\* the step answered a failure and wrote nothing
RejectedWithoutWrite ==
    /\ resp'.op = "submitScore" /\ ~resp'.success /\ resp'.status >= 400
    /\ ledger' = ledger /\ redis' = redis /\ sub' = NoSub

\* C3: a submission whose score is negative or above the game's maxScore is
\* answered with a failure, and that step leaves the ledger and every board as
\* they were.
C3_InvalidScoreRejected ==
    [][\A u \in Users, g \in Games, v \in Values :
          (InvalidScore(g, v) /\ SubmitScore(u, g, v)) => RejectedWithoutWrite]_vars

\* a score above maxScore was just refused while the ledger and Redis hold data
C3_Witness ==
    /\ resp.op = "submitScore" /\ resp.status = 400
    /\ resp.message = "Score cannot exceed maximum"
    /\ ScoreCount(ledger) > 0
    /\ ZCard(Board(redis, GLOBAL_LEADERBOARD)) > 0

\* C4: a submission to a game id without a row, or to an inactive game, is
\* answered with a failure, and that step leaves the ledger and every board as
\* they were.
C4_UnknownOrInactiveGameRejected ==
    [][\A u \in Users, g \in GameIds, v \in Values :
          ((g \notin Games \/ ~gameActive[g]) /\ SubmitScore(u, g, v)) => RejectedWithoutWrite]_vars

\* a submission to an inactive game was just refused while the ledger and
\* Redis hold data
C4_Witness ==
    /\ resp.op = "submitScore" /\ resp.status = 400
    /\ resp.message = "This game is currently inactive"
    /\ ScoreCount(ledger) > 0
    /\ ZCard(Board(redis, GLOBAL_LEADERBOARD)) > 0

\* C5: with requests served one at a time, no board ever shows more than the
\* ledger holds: a game entry is at most the user's ledger maximum in that
\* game, a global or time-scoped entry at most the user's ledger sum, and each
\* entry's user has a ledger record. A submission's record is therefore in the
\* ledger before any board reflects it.
C5_LedgerBeforeBoards ==
    /\ \A g \in Games :
          \A m \in DOMAIN Board(redis, GAME_LEADERBOARD(g)) :
              /\ ScoreMax(ledger, m[1], g) # Null
              /\ Board(redis, GAME_LEADERBOARD(g))[m] <= ScoreMax(ledger, m[1], g)
    /\ \A m \in DOMAIN Board(redis, GLOBAL_LEADERBOARD) :
          HasRecord(m[1]) /\ Board(redis, GLOBAL_LEADERBOARD)[m] <= ScoreSum(ledger, m[1])
    /\ \A k \in DOMAIN redis.time :
          \A m \in DOMAIN redis.time[k].zset :
              HasRecord(m[1]) /\ redis.time[k].zset[m] <= ScoreSum(ledger, m[1])

\* between the two writes: the record is in the ledger, no board shows it yet
C5_Witness ==
    /\ sub.pc = "addScore"
    /\ ScoreRecord(sub.userId, sub.gameId, sub.score, sub.submittedAt) \in DOMAIN ledger
    /\ sub.score > 0
    /\ Member(sub.userId, sub.username) \notin DOMAIN Board(redis, GLOBAL_LEADERBOARD)

\* C6: when Score.create rejects, the request ends there: the step answers a
\* failure, adds no record, changes no board and leaves nothing in flight.
C6_LedgerFailureAborts ==
    [][(resp'.op = "submitScore" /\ resp'.error = "SequelizeDatabaseError") =>
          (~resp'.success /\ ledger' = ledger /\ redis' = redis /\ sub' = NoSub)]_vars

\* Score.create just rejected while the ledger and Redis hold earlier data
C6_Witness ==
    /\ resp.op = "submitScore" /\ resp.error = "SequelizeDatabaseError"
    /\ ScoreCount(ledger) > 0
    /\ ZCard(Board(redis, GLOBAL_LEADERBOARD)) > 0

\* C7 as claimed: when Redis fails under addScore, after the record was
\* written, the response reports success (score recorded, ranks may lag).
C7_PartialSuccessReported ==
    (resp.op = "submitScore" /\ resp.error = "ReplyError") => resp.success

\* some active user's best score in an active game is missing from its board
BoardsIncomplete ==
    \E u \in Users, g \in Games :
        /\ userActive[u] /\ gameActive[g]
        /\ ScoreMax(ledger, u, g) # Null
        /\ CurrentMember(u) \notin DOMAIN Board(redis, GAME_LEADERBOARD(g))

\* C8: a startup sync that finds an entry in the global board answers
\* "skipped" and leaves every key of Redis as it was, complete or not.
C8_CheckAndSyncSkips ==
    [][(resp'.op = "checkAndSync" /\ ZCard(Board(redis, GLOBAL_LEADERBOARD)) > 0) =>
          (~resp'.synced /\ redis' = redis)]_vars

\* the startup sync just skipped although a game board lacks a ledger score
C8_Witness ==
    /\ resp.op = "checkAndSync" /\ ~resp.synced
    /\ ZCard(Board(redis, GLOBAL_LEADERBOARD)) > 0
    /\ BoardsIncomplete

\* the members and scores a rebuild gives the global board
RebuiltGlobal ==
    [m \in {CurrentMember(u) : u \in {x \in Users : userActive[x] /\ ScoreSum(ledger, x) > 0}}
        |-> ScoreSum(ledger, m[1])]

\* the members and scores a rebuild gives the board of an active game
RebuiltGame(g) ==
    [m \in {CurrentMember(u) :
              u \in {x \in Users : userActive[x] /\ ScoreMax(ledger, x, g) # Null}}
        |-> ScoreMax(ledger, m[1], g)]

\* C9: a startup sync that finds the global board empty rebuilds: the global
\* board holds each active user's positive ledger total, every active game's
\* board holds each active user's ledger maximum, inactive games' boards stay,
\* and the answer is forceSync's result (synced, with its three counts).
C9_CheckAndSyncRebuilds ==
    [][(resp'.op = "checkAndSync" /\ ZCard(Board(redis, GLOBAL_LEADERBOARD)) = 0) =>
          /\ resp'.synced
          /\ resp'.usersProcessed = Cardinality({u \in Users : userActive[u]})
          /\ resp'.gamesProcessed = Cardinality({g \in Games : gameActive[g]})
          /\ resp'.scoresProcessed =
               Cardinality({p \in Users \X Games :
                              /\ userActive[p[1]] /\ gameActive[p[2]]
                              /\ ScoreMax(ledger, p[1], p[2]) # Null})
          /\ redis'.global = RebuiltGlobal
          /\ \A g \in Games :
                redis'.game[g] = IF gameActive[g] THEN RebuiltGame(g) ELSE redis.game[g]
          /\ \A u \in Users :
                (userActive[u] /\ ScoreSumSince(ledger, u, Today(now)) > 0) =>
                    /\ ZScore(Board(redis', DAILY_LEADERBOARD(DateOf(now))), CurrentMember(u))
                         = ScoreSumSince(ledger, u, Today(now))
                    /\ ExpireAt(redis', DAILY_LEADERBOARD(DateOf(now))) = now + Days(DAILY_TTL)
       ]_vars

\* the startup sync just rebuilt a non-empty global board from the ledger
C9_Witness ==
    /\ resp.op = "checkAndSync" /\ resp.synced
    /\ resp.scoresProcessed > 0
    /\ ZCard(Board(redis, GLOBAL_LEADERBOARD)) > 0

\* C10 as claimed: right after a rebuild, status() reports inSync for every
\* active game: the ledger's distinct users of the game equal the board's size.
C10_StatusInSyncAfterForceSync ==
    (resp.op \in {"forceSync", "checkAndSync"} /\ resp.synced) =>
        \A g \in ActiveGames : getSyncStatus.games[g].inSync

\* C11 as claimed: whenever a startup sync completes after Redis lost its
\* data, every active user with ledger records has the ledger sum in the
\* global board and the ledger maximum in the board of every active game the
\* user scored in, also when submissions were served in between.
C11_NoDataLostOnRestart ==
    [][(lost /\ resp'.op = "checkAndSync") =>
          \A u \in Users :
              (userActive[u] /\ HasRecord(u)) =>
                  /\ ZScore(Board(redis', GLOBAL_LEADERBOARD), CurrentMember(u))
                       = ScoreSum(ledger, u)
                  /\ \A g \in ActiveGames :
                        ScoreMax(ledger, u, g) # Null =>
                            ZScore(Board(redis', GAME_LEADERBOARD(g)), CurrentMember(u))
                              = ScoreMax(ledger, u, g)
       ]_vars

\* the board a read response was taken from
RespBoard == Board(redis, AroundKey(resp.gameId))

\* the rank lookup for the member of a leaderboard entry, on the entry's board
LookupRank(e) ==
    IF resp.gameId # NoGame
    THEN getUserGameRank(redis, e.userId, resp.gameId, e.username).rank
    ELSE getUserGlobalRank(redis, e.userId, e.username).rank

\* C12: in a top-N answer (global or game) the i-th entry is labelled rank
\* offset + i, the rank lookup of that entry's member on the unchanged board
\* returns the same rank, and the answer holds every position offset+1 ..
\* offset+limit that the board has, so every rank up to the cardinality is
\* covered; members of equal score included.
C12_RankConsistentWithRange ==
    resp.op \in {"getGlobalLeaderboard", "getGameLeaderboard"} =>
        /\ Len(resp.leaderboard) =
              (IF ZCard(RespBoard) - resp.offset < 0 THEN 0
               ELSE IF ZCard(RespBoard) - resp.offset < resp.limit
                    THEN ZCard(RespBoard) - resp.offset
                    ELSE resp.limit)
        /\ \A i \in 1..Len(resp.leaderboard) :
              /\ resp.leaderboard[i].rank = resp.offset + i
              /\ LookupRank(resp.leaderboard[i]) = resp.leaderboard[i].rank
              /\ resp.leaderboard[i].score
                   = RespBoard[Member(resp.leaderboard[i].userId, resp.leaderboard[i].username)]

\* a top-N answer with two entries of equal score at ranks 2 and 3
C12_Witness ==
    /\ resp.op \in {"getGlobalLeaderboard", "getGameLeaderboard"}
    /\ resp.offset = 1
    /\ Len(resp.leaderboard) >= 2
    /\ resp.leaderboard[1].score = resp.leaderboard[2].score
    /\ LookupRank(resp.leaderboard[2]) = 3

\* the 0-based position of the asking user's member in the board of the answer
AskerPos == ZRevRank(RespBoard, CurrentMember(resp.userId))
\* the first and the last position of the neighbours' window that exist
WindowLo == IF AskerPos - resp.range > 0 THEN AskerPos - resp.range ELSE 0
WindowHi ==
    IF AskerPos + resp.range < ZCard(RespBoard) - 1
    THEN AskerPos + resp.range ELSE ZCard(RespBoard) - 1
\* min(2 * radius + 1, cardinality)
FullWindow ==
    IF 2 * resp.range + 1 < ZCard(RespBoard) THEN 2 * resp.range + 1 ELSE ZCard(RespBoard)

\* C13 as claimed: for a ranked member the neighbours' answer has exactly
\* min(2 * radius + 1, cardinality) entries.
C13_NeighborsFullWindow ==
    (resp.op = "getPlayersAround" /\ resp.userRank # Null) =>
        Len(resp.players) = FullWindow

\* C13 amended: for a ranked member at 0-based position r the answer has one
\* entry per existing position from max(0, r - radius) to r + radius, that is
\* min(r + radius, cardinality - 1) - max(0, r - radius) + 1 entries: never
\* more than min(2 * radius + 1, cardinality), and fewer when the member is
\* closer than radius to an end of a board larger than the window.
C13_NeighborsClippedWindow ==
    (resp.op = "getPlayersAround" /\ resp.userRank # Null) =>
        /\ Len(resp.players) = WindowHi - WindowLo + 1
        /\ Len(resp.players) <= FullWindow
        /\ (AskerPos >= resp.range /\ AskerPos + resp.range <= ZCard(RespBoard) - 1)
              => Len(resp.players) = 2 * resp.range + 1

\* the member at the top of a board of three or more asked with radius 1 and
\* got two entries
C13_Witness ==
    /\ resp.op = "getPlayersAround" /\ resp.userRank = 1
    /\ resp.range = 1
    /\ ZCard(RespBoard) >= 3
    /\ Len(resp.players) = 2

\* C14: for a user whose member is not in the board the neighbours' answer is
\* a null rank and no players; for a member at 0-based position r it is the
\* board's entries at the positions max(0, r - radius) .. r + radius that
\* exist, one after the other from the higher position down, with their board
\* scores, the member's own entry among them.
C14_NeighborsAreTheRange ==
    resp.op = "getPlayersAround" =>
        IF CurrentMember(resp.userId) \notin DOMAIN RespBoard
        THEN resp.userRank = Null /\ resp.players = << >>
        ELSE /\ resp.userRank = AskerPos + 1
             /\ Len(resp.players) = WindowHi - WindowLo + 1
             /\ \A i \in 1..Len(resp.players) :
                   LET m == Member(resp.players[i].userId, resp.players[i].username)
                   IN  /\ m \in DOMAIN RespBoard
                       /\ ZRevRank(RespBoard, m) = WindowLo + i - 1
                       /\ resp.players[i].score = RespBoard[m]
             /\ \A i, j \in 1..Len(resp.players) :
                   i < j => resp.players[i].score >= resp.players[j].score
             /\ \E i \in 1..Len(resp.players) :
                   Member(resp.players[i].userId, resp.players[i].username)
                     = CurrentMember(resp.userId)

\* a member in the middle of a board of four or more got its neighbour above
\* and its neighbour below, the upper one with a higher score
C14_Witness ==
    /\ resp.op = "getPlayersAround" /\ resp.range = 1
    /\ resp.userRank = 2
    /\ ZCard(RespBoard) >= 4
    /\ Len(resp.players) = 3
    /\ resp.players[1].score > resp.players[3].score

\* a user without an entry asked for the neighbours on a board that has entries
C14_WitnessAbsent ==
    /\ resp.op = "getPlayersAround"
    /\ resp.userRank = Null
    /\ ZCard(RespBoard) > 0

\* the latest write of any entry of the daily board of day d
LastWrite(d) ==
    SetMax({wroteAt[k] : k \in {x \in DOMAIN wroteAt : x[1] = d}})

\* the entries of daily boards that are in Redis now
DailyEntries ==
    {k \in DOMAIN wroteAt : k[2] \in DOMAIN Board(redis, DAILY_LEADERBOARD(k[1]))}

\* C15 as claimed: an entry written into a daily board at time T is gone from
\* that board at every moment more than 2 days after T, whatever was written
\* to the board after T.
C15_DailyEntryGoneAfterTwoDays ==
    \A k \in DailyEntries : now <= wroteAt[k] + Days(DAILY_TTL)

\* C15 amended: an entry of a daily board is gone from that board at every
\* moment 2 days or more after the last write (a submission or a rebuild) to
\* that board; the board is written only during its own day, so the entry is
\* gone 3 days after the start of that day at the latest.
C15_DailyBoardGoneTwoDaysAfterLastWrite ==
    \A k \in DailyEntries :
        /\ now < LastWrite(k[1]) + Days(DAILY_TTL)
        /\ ExpireAt(redis, DAILY_LEADERBOARD(k[1])) = LastWrite(k[1]) + Days(DAILY_TTL)
        /\ LastWrite(k[1]) < Days(k[1] + 1)
        /\ now < Days(k[1] + 1 + DAILY_TTL)

\* an entry is still in its daily board more than 2 days after it was
\* written, kept by a later write to the same board
C15_Witness ==
    \E k \in DailyEntries :
        /\ now > wroteAt[k] + Days(DAILY_TTL)
        /\ LastWrite(k[1]) > wroteAt[k]

\* the forceSyncLeaderboards runs in progress
SyncsInProgress == {c \in Callers : fs[c].pc # "idle"}

\* C16 as claimed: at no time are two forceSync executions in progress.
C16_ForceSyncSingleFlight == Cardinality(SyncsInProgress) <= 1

\* a request is taken up by a handler in this step
RequestAccepted == sub = NoSub /\ sub' # NoSub

\* C17: the process listens, and takes up requests, only when the sync step
\* of its start has completed; a process whose sync step failed never listens.
C17_ListensOnlyAfterStartupSync ==
    [][/\ srv'.pc = "serving" => srv'.sync = "done"
       /\ RequestAccepted => srv.sync = "done"
       /\ srv.sync = "failed" => srv'.pc # "serving"]_vars

\* a second process, started after Redis lost its data, has rebuilt the
\* boards and serves a submission
C17_Witness ==
    /\ srv = Serving
    /\ sub # NoSub
    /\ redis # EmptyRedis
    /\ ~clean

\* no submitScore call is between its Score.create and its response
AllCompleted == \A c \in Callers : inflight[c].pc \in {"idle", "done"}

\* C18: once all overlapping submitScore calls have completed, a member's
\* global score is the sum of the submitted values and the member's score in
\* each game board is the highest value submitted to that game.
C18_NoLostUpdates ==
    AllCompleted =>
        \A u \in Users :
            /\ HasRecord(u) =>
                   ZScore(Board(redis, GLOBAL_LEADERBOARD), CurrentMember(u)) = ScoreSum(ledger, u)
            /\ \A g \in Games :
                   ZScore(Board(redis, GAME_LEADERBOARD(g)), CurrentMember(u))
                       = ScoreMax(ledger, u, g)

\* two calls of the same user have completed, the second having started while
\* the first was inside its pipeline
C18_Witness ==
    /\ \A c \in Callers : inflight[c].pc = "done" /\ inflight[c].userId = "u1"
    /\ \E c \in Callers : inflight[c].overlapped
    /\ ScoreCount(ledger) = 2

\* the users and games the ledger has records of
LedgerUsers == {r.userId : r \in DOMAIN ledger}
LedgerGamesOf(u) == {r.gameId : r \in {x \in DOMAIN ledger : x.userId = u}}

C20_EveryRecordReflected ==
    (resp.op = "forceSync" /\ resp.synced) =>
        \A r \in DOMAIN ledger :
            /\ \E m \in DOMAIN Board(redis, GAME_LEADERBOARD(r.gameId)) : m[1] = r.userId
            /\ \E m \in DOMAIN Board(redis, GLOBAL_LEADERBOARD) : m[1] = r.userId

\* C21: no operation changes or removes a record of the ledger: every record
\* stays, as many times as it was stored, and the ledger only grows.
C21_LedgerAppendOnly ==
    [][\A r \in DOMAIN ledger : r \in DOMAIN ledger' /\ ledger'[r] >= ledger[r]]_vars

\* a game has just been deactivated and its records are still in the ledger
C21_Witness ==
    /\ resp.op = "deleteGame"
    /\ \E r \in DOMAIN ledger : ~gameActive[r.gameId]

\* the board the claim assigns to a period at time t
PeriodBoard(period, t) ==
    CASE period = "day" -> Board(redis, DAILY_LEADERBOARD(DateOf(t)))
      [] period = "week" -> Board(redis, WEEKLY_LEADERBOARD(WeekOf(t)))
      [] period = "month" -> Board(redis, MONTHLY_LEADERBOARD(MonthOf(t)))
      [] period \in {"year", "all"} -> Board(redis, GLOBAL_LEADERBOARD)

\* the first `limit` entries of a board, highest score first, ranked from 1
TopOf(b, limit) ==
    [i \in 1..(IF limit < ZCard(b) THEN limit ELSE ZCard(b)) |->
        [rank |-> i, userId |-> ZRevAll(b)[i].member[1],
         username |-> ZRevAll(b)[i].member[2], score |-> ZRevAll(b)[i].score]]

\* C22: a report for day, week or month lists the top of the current daily,
\* weekly or monthly board, a report for year or all lists the top of the
\* global board, and in every state year and all give the same list.
C22_PeriodBoards ==
    /\ resp.op = "getTopPlayersReport" =>
           resp.topPlayers = TopOf(PeriodBoard(resp.period, now), resp.limit)
    /\ \A limit \in 1..MaxLimit :
           getTopPlayersByPeriod(redis, "year", limit, now)
               = getTopPlayersByPeriod(redis, "all", limit, now)

\* a report for year read on a day whose daily board is empty while the
\* global board is not
C22_Witness ==
    /\ resp.op = "getTopPlayersReport"
    /\ resp.period = "year"
    /\ Len(resp.topPlayers) = 2
    /\ Board(redis, DAILY_LEADERBOARD(DateOf(now))) = EmptyBoard

\* the entries a read has just returned
ReadEntries ==
    CASE resp.op = "getGlobalLeaderboard" -> resp.leaderboard
      [] resp.op = "getPlayersAround" -> resp.players
      [] resp.op = "getTopPlayersReport" -> resp.topPlayers
      [] OTHER -> << >>

\* C23 as claimed: a top-N or neighbours read leaves out every entry whose
\* member cannot be decoded, so each entry it returns is a decoded user.
C23_UndecodableEntriesOmitted ==
    \A i \in 1..Len(ReadEntries) : ReadEntries[i].userId \in Users

\* the entries of a board that belong to user u
EntriesOf(b, u) == {m \in DOMAIN b : m[1] = u}

\* C24: right after a forceSync that ran alone, the board of every active game
\* holds exactly one entry for each active user with a ledger record in that
\* game, scored with the user's ledger maximum there, and no other entry.
C24_GameBoardsAfterForceSync ==
    resp.op = "forceSync" =>
        \A g \in Games : gameActive[g] =>
            LET b == Board(redis, GAME_LEADERBOARD(g))
            IN  /\ \A u \in Users :
                       (userActive[u] /\ g \in LedgerGamesOf(u)) =>
                           /\ EntriesOf(b, u) = {CurrentMember(u)}
                           /\ b[CurrentMember(u)] = ScoreMax(ledger, u, g)
                /\ \A m \in DOMAIN b : userActive[m[1]] /\ g \in LedgerGamesOf(m[1])

\* a rebuild wrote the entry of a user who submitted two different scores to
\* an active game
C24_Witness ==
    /\ resp.op = "forceSync"
    /\ \E g \in Games, u \in Users :
          /\ gameActive[g] /\ userActive[u]
          /\ CurrentMember(u) \in DOMAIN Board(redis, GAME_LEADERBOARD(g))
          /\ \E r \in DOMAIN ledger :
                r.userId = u /\ r.gameId = g /\ r.score < ScoreMax(ledger, u, g)

\* C25 as claimed: right after a forceSync that ran alone, every active user
\* with a ledger record has a global entry scored with the sum of the user's
\* ledger values, a sum of 0 included, and the global board holds nothing else.
C25_GlobalBoardAfterForceSync ==
    resp.op = "forceSync" =>
        LET b == Board(redis, GLOBAL_LEADERBOARD)
        IN  /\ \A u \in Users :
                   (userActive[u] /\ u \in LedgerUsers) =>
                       /\ EntriesOf(b, u) = {CurrentMember(u)}
                       /\ b[CurrentMember(u)] = ScoreSum(ledger, u)
            /\ \A m \in DOMAIN b : userActive[m[1]] /\ m[1] \in LedgerUsers

\* the sum of the user's records whose submission time gives the same daily,
\* weekly or monthly key as time t
SumOfKey(u, kind, t) ==
    BagSum(ledger,
           {r \in DOMAIN ledger :
               /\ r.userId = u
               /\ CASE kind = "daily" -> DateOf(r.submittedAt) = DateOf(t)
                     [] kind = "weekly" -> WeekOf(r.submittedAt) = WeekOf(t)
                     [] kind = "monthly" -> MonthOf(r.submittedAt) = MonthOf(t)})

\* the rebuild writes the user's entry of a time-scoped board when the sum it
\* computed for the period is positive
RebuildWrote(u, kind, t) ==
    /\ userActive[u]
    /\ CASE kind = "daily" -> ScoreSumSince(ledger, u, Today(t)) > 0
          [] kind = "weekly" -> ScoreSumSince(ledger, u, StartOfWeek(t)) > 0
          [] kind = "monthly" -> ScoreSumSince(ledger, u, StartOfMonth(t)) > 0

CurrentKey(kind, t) ==
    CASE kind = "daily" -> DAILY_LEADERBOARD(DateOf(t))
      [] kind = "weekly" -> WEEKLY_LEADERBOARD(WeekOf(t))
      [] kind = "monthly" -> MONTHLY_LEADERBOARD(MonthOf(t))

\* C26 as claimed: the score a forceSync has just written for a user into the
\* current daily, weekly or monthly board is the sum of exactly the user's
\* records whose submission time maps to that board's key.
C26_RebuiltPeriodScoreMatchesKey ==
    resp.op = "forceSync" =>
        \A u \in Users, kind \in {"daily", "weekly", "monthly"} :
            RebuildWrote(u, kind, now) =>
                ZScore(Board(redis, CurrentKey(kind, now)), CurrentMember(u))
                    = SumOfKey(u, kind, now)

\* the rebuild writes member m into the board of game g from the ledger
RewrittenFromLedger(g, m) ==
    /\ gameActive[g]
    /\ userActive[m[1]]
    /\ m = CurrentMember(m[1])
    /\ g \in LedgerGamesOf(m[1])

\* C27 as claimed: a forceSync clears every game board, those of inactive
\* games included, and the global board: an entry that was there before is
\* there afterwards only if the rebuild wrote it again from the ledger.
C27_ForceSyncClearsEveryBoard ==
    [][resp'.op = "forceSync" =>
          /\ \A g \in Games :
                \A m \in DOMAIN Board(redis, GAME_LEADERBOARD(g)) :
                    m \in DOMAIN Board(redis', GAME_LEADERBOARD(g)) => RewrittenFromLedger(g, m)
          /\ \A m \in DOMAIN Board(redis, GLOBAL_LEADERBOARD) :
                m \in DOMAIN Board(redis', GLOBAL_LEADERBOARD) =>
                    userActive[m[1]] /\ m = CurrentMember(m[1]) /\ ScoreSum(ledger, m[1]) > 0]_vars

\* C28: forceSync is idempotent: in the state a forceSync has just left, with
\* nothing in between, a second forceSync leaves every board (global, game
\* and time-scoped, with its expiry) as it is.
C28_ForceSyncIdempotent ==
    resp.op = "forceSync" => forceSyncLeaderboards.st = redis

\* a rebuild has filled the global board, a game board and the time-scoped
\* boards, and the board of a deactivated game is still there
C28_Witness ==
    /\ resp.op = "forceSync"
    /\ Board(redis, GLOBAL_LEADERBOARD) # EmptyBoard
    /\ DOMAIN redis.time # {}
    /\ \E g \in Games : gameActive[g] /\ Board(redis, GAME_LEADERBOARD(g)) # EmptyBoard
    /\ \E g \in Games : ~gameActive[g] /\ Board(redis, GAME_LEADERBOARD(g)) # EmptyBoard

\* the submitScore calls and the rebuilds have all completed
RaceOver == AllCompleted /\ SyncsInProgress = {}

\* C29 as claimed: once a submitScore and a forceSync that ran at the same
\* time have both completed, the user's global score is the sum of the user's
\* ledger values: the submission is neither counted twice nor dropped.
C29_RaceKeepsGlobalSum ==
    RaceOver =>
        \A u \in LedgerUsers :
            ZScore(Board(redis, GLOBAL_LEADERBOARD), CurrentMember(u)) = ScoreSum(ledger, u)

\* C30 as claimed: once a submitScore and a forceSync that ran at the same
\* time have both completed, the user's score in the game board is the
\* maximum of the user's ledger values in that game.
C30_RaceKeepsGameMax ==
    RaceOver =>
        \A u \in LedgerUsers : \A g \in LedgerGamesOf(u) :
            ZScore(Board(redis, GAME_LEADERBOARD(g)), CurrentMember(u)) = ScoreMax(ledger, u, g)

\* the user whose submissions and renames are followed
RenameUser == "u1"

\* one user submits, users change their usernames, ranks are looked up and
\* the boards are rebuilt
NextRename ==
    \/ (\E v \in {1, 2} : SubmitScore(RenameUser, TimedGame, v)) /\ UNCHANGED aux
    \/ SubmitAddScore /\ UNCHANGED aux
    \/ sub = NoSub /\ (\E u \in Users, name \in Names : UpdateMe(u, name)) /\ UNCHANGED aux
    \/ sub = NoSub /\ (\E g \in {TimedGame, NoGame} : GetUserRanking(RenameUser, g))
          /\ UNCHANGED aux
    \/ sub = NoSub /\ ForceLeaderboardSync /\ UNCHANGED aux

SpecRename == Init /\ [][NextRename]_vars

\* every key a board can live at
BoardKeys ==
    {GLOBAL_LEADERBOARD} \cup {GAME_LEADERBOARD(g) : g \in Games}
        \cup {[kind |-> "time", id |-> k] : k \in DOMAIN redis.time}

\* the step in which the pipeline of a submission runs
PipelineStep == sub.pc = "addScore" /\ sub' = NoSub

\* C31: entries are keyed by user id and the username of the request: the
\* pipeline of a submission leaves every entry of the same user under another
\* username as it was and writes the entry under the request's username (a new
\* one if absent), and a rank lookup returns the score of the entry under the
\* user's current username only.
C31_EntriesKeyedByUsername ==
    [][/\ PipelineStep =>
             /\ \A key \in BoardKeys :
                   \A m \in DOMAIN Board(redis, key) :
                       (m[1] = sub.userId /\ m # Member(sub.userId, sub.username)) =>
                           /\ m \in DOMAIN Board(redis', key)
                           /\ Board(redis', key)[m] = Board(redis, key)[m]
             /\ Member(sub.userId, sub.username) \in DOMAIN Board(redis', GLOBAL_LEADERBOARD)
             /\ Member(sub.userId, sub.username) \notin DOMAIN Board(redis, GLOBAL_LEADERBOARD) =>
                   Board(redis', GLOBAL_LEADERBOARD)[Member(sub.userId, sub.username)] = sub.score
       /\ (resp'.op = "getUserRanking" /\ resp'.gameId = NoGame) =>
             resp'.score = ZScore(Board(redis, GLOBAL_LEADERBOARD),
                                  Member(resp'.userId, username[resp'.userId]))]_vars

\* the user scored under the old username, changed it and scored again: the
\* global board holds both entries and the lookup returns the new one's score
C31_Witness ==
    /\ resp.op = "getUserRanking"
    /\ resp.gameId = NoGame
    /\ Cardinality(EntriesOf(Board(redis, GLOBAL_LEADERBOARD), RenameUser)) = 2
    /\ resp.score # Null
    /\ resp.score < ScoreSum(ledger, RenameUser)

\* the boards a rebuild at time t writes: the global board, the boards of the
\* active games and the current daily, weekly and monthly boards
RebuiltKeys(t) ==
    {GLOBAL_LEADERBOARD} \cup {GAME_LEADERBOARD(g) : g \in ActiveGames}
        \cup {CurrentKey(kind, t) : kind \in {"daily", "weekly", "monthly"}}

\* C32 as claimed: right after a forceSync that ran alone, no board it rebuilds
\* holds two entries with the same user id, even when the user changed
\* username between an earlier submission and the rebuild.
C32_OneEntryPerUserAfterForceSync ==
    resp.op = "forceSync" =>
        \A key \in RebuiltKeys(now), u \in Users :
            Cardinality(EntriesOf(Board(redis, key), u)) <= 1

\* C33 as claimed: a successful submitScore answers with a game rank and a
\* global rank that are not null, under every interleaving with other
\* submissions and with a rebuild.
C33_SubmitReturnsRanks ==
    (resp.op = "submitScore" /\ resp.status = 201) =>
        /\ resp.data.gameRank # Null
        /\ resp.data.globalRank # Null

\* C34 as claimed: in every reachable state, also after a submission whose
\* Redis writes were applied only in part, every daily, weekly or monthly
\* board that holds an entry has an expiry.
C34_TimeBoardsHaveExpiry ==
    \A k \in DOMAIN redis.time :
        DOMAIN redis.time[k].zset # {} => redis.time[k].expireAt # NoExpiry

\* ------------------------- getPlayersAroundUser, one await after another
\* the second read of getPlayersAroundUser: the window around a rank read before
AroundPlayers(st, gameId, rank, range) ==
    LET start == IF rank - range > 0 THEN rank - range ELSE 0
        end == rank + range
    IN  parseLeaderboardResults(ZRevRange(Board(st, AroundKey(gameId)), start, end), start)

\* GET /api/leaderboard/around up to the reply of ZREVRANK: without an entry
\* the answer is sent at once, otherwise the rank is kept for the second read
AroundRank(c, u, g, range) ==
    /\ userActive[u]
    /\ inflight[c].pc = "idle"
    /\ LET rank == ZRevRank(Board(redis, AroundKey(g)), Member(u, username[u]))
       IN  IF rank = Null
           THEN /\ resp' = [op |-> "getPlayersAround", userId |-> u, gameId |-> g,
                            range |-> range, userRank |-> Null, players |-> << >>]
                /\ UNCHANGED inflight
           ELSE /\ inflight' = [inflight EXCEPT ![c] =
                                   [pc |-> "around", userId |-> u, gameId |-> g,
                                    range |-> range, rank |-> rank]]
                /\ resp' = NoResp
    /\ UNCHANGED <<ledger, gameActive, userActive, username, redis, now, sub, clean>>

\* the reply of ZREVRANGE arrives and the answer is sent
AroundRange(c) ==
    /\ inflight[c].pc = "around"
    /\ resp' = [op |-> "getPlayersAround", userId |-> inflight[c].userId,
                gameId |-> inflight[c].gameId, range |-> inflight[c].range,
                userRank |-> inflight[c].rank + 1,
                players |-> AroundPlayers(redis, inflight[c].gameId, inflight[c].rank,
                                          inflight[c].range)]
    /\ inflight' = [inflight EXCEPT ![c] = NoSync]
    /\ UNCHANGED <<ledger, gameActive, userActive, username, redis, now, sub, clean>>

\* one caller asks for its neighbours while the other submits scores
ReadCaller == "r1"
NextAround ==
    \/ (\E u \in Users, v \in {1, 2} : ConcSubmit(SubmitCaller, u, RaceGame, v))
          /\ UNCHANGED <<lost, wroteAt, fs, srv>>
    \/ ConcCommand(SubmitCaller) /\ UNCHANGED <<lost, wroteAt, fs, srv>>
    \/ ConcDone(SubmitCaller) /\ UNCHANGED <<lost, wroteAt, fs, srv>>
    \/ (\E u \in Users, g \in {RaceGame, NoGame}, range \in 0..MaxRange :
            AroundRank(ReadCaller, u, g, range))
          /\ UNCHANGED <<lost, wroteAt, fs, srv>>
    \/ AroundRange(ReadCaller) /\ UNCHANGED <<lost, wroteAt, fs, srv>>

SpecAround == Init /\ [][NextAround]_vars

\* C35 as claimed: under every interleaving with submissions, the userRank that
\* getPlayersAround returns is the rank attached to the caller's own entry in
\* the returned list, and that entry is in the list whenever userRank is not null.
C35_AroundRankMatchesList ==
    (resp.op = "getPlayersAround" /\ resp.userRank # Null) =>
        \E i \in 1..Len(resp.players) :
            /\ resp.players[i].userId = resp.userId
            /\ resp.players[i].rank = resp.userRank

\* C36: a top-N read with limit L and offset O returns at most L entries,
\* ranked O+1, O+2, ... one after the other, with scores that never increase
\* down the list, and returns no entry when O is at or beyond the number of
\* entries of the board.
C36_TopNPage ==
    resp.op \in {"getGlobalLeaderboard", "getGameLeaderboard"} =>
        /\ Len(resp.leaderboard) <= resp.limit
        /\ \A i \in 1..Len(resp.leaderboard) : resp.leaderboard[i].rank = resp.offset + i
        /\ \A i, j \in 1..Len(resp.leaderboard) :
              i < j => resp.leaderboard[i].score >= resp.leaderboard[j].score
        /\ resp.offset >= ZCard(RespBoard) => resp.leaderboard = << >>

\* a page of two taken from the second position of a board of four or more,
\* the first entry of the page with the higher score
C36_Witness ==
    /\ resp.op \in {"getGlobalLeaderboard", "getGameLeaderboard"}
    /\ resp.limit = 2 /\ resp.offset = 1
    /\ ZCard(RespBoard) >= 4
    /\ Len(resp.leaderboard) = 2
    /\ resp.leaderboard[1].score > resp.leaderboard[2].score

\* a page asked from beyond the end of a board that has entries
C36_WitnessBeyond ==
    /\ resp.op \in {"getGlobalLeaderboard", "getGameLeaderboard"}
    /\ ZCard(RespBoard) > 0
    /\ resp.offset >= ZCard(RespBoard)
    /\ resp.leaderboard = << >>

\* the ids of the daily, weekly and monthly keys of the moment t
CurrentTimeIds(t) == {CurrentKey(kind, t).id : kind \in {"daily", "weekly", "monthly"}}

\* C37: a forceSync deletes no time-scoped board, and leaves every daily,
\* weekly or monthly board other than those of the current day, week and
\* month as it was, entry by entry.
C37_ForceSyncKeepsTimeBoards ==
    [][resp'.op = "forceSync" =>
          \A k \in DOMAIN redis.time :
              /\ k \in DOMAIN redis'.time
              /\ k \notin CurrentTimeIds(now) => redis'.time[k].zset = redis.time[k].zset]_vars

\* a rebuild ran on a later day than a submission: the daily board of the
\* earlier day is still there next to the rebuilt board of the day
C37_Witness ==
    /\ resp.op = "forceSync"
    /\ \E k \in DOMAIN redis.time :
          /\ k \notin CurrentTimeIds(now)
          /\ DOMAIN redis.time[k].zset # {}
    /\ \E k \in DOMAIN redis.time : k \in CurrentTimeIds(now)

\* the global key and the keys of the games
PermanentKeys == {GLOBAL_LEADERBOARD} \cup {GAME_LEADERBOARD(g) : g \in Games}

\* C38: no operation gives the global key or a game key a TTL, and an entry of
\* the global board or of a game board is still there after every step other
\* than a forceSync, the passing of time included.
C38_PermanentBoardsNeverExpire ==
    [][/\ \A key \in PermanentKeys : ExpireAt(redis', key) = NoExpiry
       /\ resp'.op # "forceSync" =>
             \A key \in PermanentKeys :
                 \A m \in DOMAIN Board(redis, key) : m \in DOMAIN Board(redis', key)]_vars

\* two days after a submission its daily board has expired, and its entries
\* in the global board and in the game board are still there
C38_Witness ==
    /\ now >= Days(DAILY_TTL)
    /\ \E r \in DOMAIN ledger :
          /\ r.submittedAt = 0
          /\ DOMAIN Board(redis, DAILY_LEADERBOARD(DateOf(r.submittedAt))) = {}
          /\ CurrentMember(r.userId) \in DOMAIN Board(redis, GLOBAL_LEADERBOARD)
          /\ CurrentMember(r.userId) \in DOMAIN Board(redis, GAME_LEADERBOARD(r.gameId))

\* GET /api/leaderboard/rank/all: the ranks over the active games; a score of
\* 0 is answered as null
GetUserAllRankings(u) ==
    /\ userActive[u]
    /\ resp' = LET rankings == getUserAllRanks(redis, u, username[u], ActiveGames)
               IN  [op |-> "getUserAllRankings", userId |-> u,
                    global |-> rankings.global,
                    games |-> [g \in DOMAIN rankings.games |->
                                 [rank |-> rankings.games[g].rank,
                                  score |-> IF rankings.games[g].score = 0 THEN Null
                                            ELSE rankings.games[g].score]]]
    /\ UNCHANGED <<ledger, gameActive, userActive, username, redis, now, sub, clean>>

\* every read and the status, between submissions and while the clock runs
NextPure ==
    \/ (\E u \in Users : ScoreSum(ledger, u) = 0 /\ SubmitScore(u, TimedGame, IdOrd[u]))
          /\ UNCHANGED aux
    \/ SubmitAddScore /\ UNCHANGED aux
    \/ Tick /\ UNCHANGED aux
    \/ sub = NoSub /\ GetGlobalLeaderboard(MaxLimit, 0) /\ UNCHANGED aux
    \/ sub = NoSub /\ GetGameLeaderboard(TimedGame, MaxLimit, 0) /\ UNCHANGED aux
    \/ sub = NoSub /\ (\E u \in Users, g \in {TimedGame, NoGame} : GetUserRanking(u, g))
          /\ UNCHANGED aux
    \/ sub = NoSub /\ (\E u \in Users : GetUserAllRankings(u)) /\ UNCHANGED aux
    \/ sub = NoSub /\ (\E u \in Users : GetPlayersAround(u, NoGame, MaxRange)) /\ UNCHANGED aux
    \/ sub = NoSub /\ (\E period \in Periods : GetTopPlayersReport(period, MaxLimit))
          /\ UNCHANGED aux
    \/ sub = NoSub /\ GetLeaderboardSyncStatus /\ UNCHANGED aux

SpecPure == Init /\ [][NextPure]_vars

\* the answers of the reads and of the status
ReadOps ==
    {"getGlobalLeaderboard", "getGameLeaderboard", "getUserRanking", "getUserAllRankings",
     "getPlayersAround", "getTopPlayersReport", "status"}

\* C39: every read (top-N with the board's size, rank, ranks over the games,
\* neighbours, top of a period) and the status leave the ledger and every
\* board of Redis, the expiries included, as they were.
C39_ReadsChangeNothing ==
    [][resp'.op \in ReadOps => (ledger' = ledger /\ redis' = redis)]_vars

\* the status was answered after submissions of both users, while the
\* time-scoped boards have their deadlines
C39_Witness ==
    /\ resp.op = "status"
    /\ resp.data.database.totalScores = 2
    /\ resp.data.redisGlobal = 2
    /\ \E k \in DOMAIN redis.time : redis.time[k].expireAt # NoExpiry

====
